---- MODULE Spec2Model ----
(***************************************************************************)
(* Model of the `analize` command of GoHz: the CLI flow of main (full and  *)
(* compare mode), analyzeFile with every probe it calls, the derivations   *)
(* and diagnostic notes, compare and splitBySilence.                       *)
(*                                                                         *)
(* Numbers.  float64 values read from tool output are modelled as          *)
(* integers (fixed point: dB values, flatness and correlation in tenths,   *)
(* times in ticks).  A float64 produced by a division is kept as the       *)
(* unreduced fraction [num, den]; NaN is the fraction 0/0.                 *)
(* Pointers.  A Go pointer field is a sequence of length at most one:      *)
(* <<>> is nil, <<v>> points at v.                                         *)
(* External tools.  What each tool prints for an input file is the         *)
(* environment of the program; it is fixed per file (variable files) at    *)
(* the level of what the regular expressions of each probe match.          *)
(***************************************************************************)
EXTENDS Integers, Sequences, FiniteSets, TLC

VARIABLES
    sys,      \* which binaries exec.LookPath finds: [ffmpeg, ffprobe, aubio]
    mode,     \* args[0]: "full", "compare", another word, or "" (no args)
    cfg,      \* *Config after flag parsing
    splitSec, \* -split-on-silence
    trimSec,  \* -trim-ends
    files,    \* files[i]: what the tools report for input i (1 = A, 2 = B)
    pc,       \* position of main
    a1,       \* result of the first analyzeFile: <<>> or <<Analysis>>
    a2,       \* result of the second analyzeFile (compare mode)
    calls,    \* probes invoked so far, in order: <<file index, probe name>>
    outFile,  \* the file at cfg.OutPath: <<>> or <<content>>
    cuts,     \* cut operations issued by splitBySilence, in order
    outs,     \* paths returned by splitBySilence
    exit,     \* process exit status: <<>> while running
    argv,     \* split tool: its command line and what it finds on disk
    stemCfg,  \* split tool: *cfg returned by parseFlags, <<>> before
    jobs,     \* split tool: ffmpeg runs made, in order
    stemPc,   \* split tool: position of main
    stemExit  \* split tool: process exit status, <<>> while running

\* the state of analize and the state of split
analizeVars == <<sys, mode, cfg, splitSec, trimSec, files, pc, a1, a2, calls,
                 outFile, cuts, outs, exit>>

stemVars == <<argv, stemCfg, jobs, stemPc, stemExit>>

vars == <<analizeVars, stemVars>>

----------------------------------------------------------------------------
(* Pointers and float64 helpers *)

None == <<>>

Some(v) == <<v>>

IsSome(p) == Len(p) > 0

Deref(p) == p[1]

Frac(n, d) == [num |-> n, den |-> d]

NaN == Frac(0, 0)

IsNaN(f) == f.den = 0 /\ f.num = 0

\* equality of two float64 values held as fractions (NaN equals nothing)
FracEq(f, g) == /\ f.den # 0
                /\ g.den # 0
                /\ f.num * g.den = g.num * f.den

derefFloat(p) == IF p = None THEN NaN ELSE Deref(p)

RECURSIVE SumSeq(_)
SumSeq(s) == IF s = <<>> THEN 0 ELSE s[1] + SumSeq(Tail(s))

\* mean: NaN for an empty slice, else sum / len
mean(xs) == IF Len(xs) = 0 THEN NaN ELSE Frac(SumSeq(xs), Len(xs))

\* stddev without the len(xs) < 2 guard: one value divides 0 by 0
stddevUnguarded(xs) ==
    LET n == Len(xs)
        s == SumSeq(xs)
    IN  Frac(SumSeq([i \in 1..n |-> (n * xs[i] - s) * (n * xs[i] - s)]),
             n * n * (n - 1))

\* stddev(xs, mean(xs)), kept as its square (the sample variance):
\* sum (v - s/n)^2 / (n-1) = sum (n*v - s)^2 / (n^2 * (n-1))
stddev(xs) ==
    IF Len(xs) < 2 THEN Frac(0, 1)
    ELSE LET n == Len(xs)
             s == SumSeq(xs)
         IN  Frac(SumSeq([i \in 1..n |-> (n * xs[i] - s) * (n * xs[i] - s)]),
                  n * n * (n - 1))

\* Go integer division truncates towards zero
GoDiv(a, b) == IF a >= 0 THEN a \div b ELSE -((-a) \div b)

GoMod(a, b) == a - b * GoDiv(a, b)

----------------------------------------------------------------------------
(* Program constants of the note rules (tenths) *)

TruePeakLimit == -10

FlatnessLimit == 5

CorrelationLimit == 2

----------------------------------------------------------------------------
(* Probes.  Each takes what the tool printed for the file (a field of the  *)
(* file's environment e) and returns what the Go function returns.        *)

ZeroProbe == [Duration |-> 0, SampleRate |-> 0, Channels |-> 0]

\* ffprobeInfo with its error dropped, as the optional probes drop theirs
ffprobeInfoNoErr(e) ==
    [p |-> IF e.ffprobe = None THEN ZeroProbe ELSE Deref(e.ffprobe),
     err |-> FALSE]

\* ffprobeInfo: runCmd error or JSON error -> (ProbeInfo{}, err)
ffprobeInfo(e) ==
    IF e.ffprobe = None
    THEN [p |-> ZeroProbe, err |-> TRUE]
    ELSE [p |-> Deref(e.ffprobe), err |-> FALSE]

\* ffmpegVolumedetect: both max_volume and mean_volume must match
ffmpegVolumedetect(e) ==
    IF e.volumedetect.max = None \/ e.volumedetect.mean = None
    THEN [peak |-> 0, rms |-> 0, err |-> TRUE]
    ELSE [peak |-> Deref(e.volumedetect.max),
          rms |-> Deref(e.volumedetect.mean), err |-> FALSE]

AstatsKeys == {"dc_offset", "zero_crossings_rate", "noise_floor",
               "number_of_clipped_samples"}

\* ffmpegAstatsOverall: the map of the "Overall ..." lines; error iff empty.
\* The map is kept as a function from key to pointer (None = key missing).
ffmpegAstatsOverall(e) ==
    [stats |-> e.astats,
     err |-> \A k \in AstatsKeys : e.astats[k] = None]

\* astatsMap[key] of Go: the zero value when the key is missing
MapGet(m, k) == IF m[k] = None THEN 0 ELSE Deref(m[k])

MapHas(m, k) == m[k] # None

\* ffmpegEBUR128: error iff no integrated loudness; range defaults to 0
ffmpegEBUR128(e) ==
    IF e.ebur128.I = None
    THEN [l |-> [Integrated |-> 0, Range |-> 0, TruePeak |-> None], err |-> TRUE]
    ELSE [l |-> [Integrated |-> Deref(e.ebur128.I),
                 Range |-> IF e.ebur128.R = None THEN 0 ELSE Deref(e.ebur128.R),
                 TruePeak |-> e.ebur128.TP],
          err |-> FALSE]

\* ffmpegBandLoudness for the i-th configured band
ffmpegBandLoudness(e, i) ==
    IF e.band[i].max = None \/ e.band[i].mean = None
    THEN [peak |-> 0, rms |-> 0, err |-> TRUE]
    ELSE [peak |-> Deref(e.band[i].max), rms |-> Deref(e.band[i].mean),
          err |-> FALSE]

\* ffmpegStereoStuff: vals = the Overall RMS level matches, in output order
\* (the tool prints values whose pairwise sums are even, so /2 is exact)
ffmpegStereoStuff(e) ==
    LET vals == e.stereo.vals
        mid  == IF Len(vals) >= 4 THEN GoDiv(vals[3] + vals[4], 2)
                ELSE IF Len(vals) >= 2 THEN vals[1] ELSE 0
        side == IF Len(vals) >= 4 THEN GoDiv(vals[1] + vals[2], 2)
                ELSE IF Len(vals) >= 2 THEN vals[2] ELSE 0
    IN  [MidRMS |-> mid, SideRMS |-> side, SideMidRatioDB |-> side - mid,
         Correlation |-> e.stereo.corr]

\* ffmpegSpectral: six independent optional matches, never an error
ffmpegSpectral(e) ==
    [Centroid |-> e.spectral.centroid, Rolloff95 |-> e.spectral.rolloff,
     Flatness |-> e.spectral.flat, Spread |-> e.spectral.spread,
     Skewness |-> e.spectral.skew, Kurtosis |-> e.spectral.kurt]

\* detectSilences: the paired silence_start/silence_end lines, never an error
detectSilences(e) == e.silence

\* aubioBPMSeries: error if aubio is missing, if the command failed with no
\* output, or if no "<n> bpm" line matched; else the values in output order
aubioBPMSeries(s, e) ==
    IF ~s.aubio \/ e.tempo.failed \/ Len(e.tempo.vals) = 0
    THEN [series |-> <<>>, err |-> TRUE]
    ELSE [series |-> e.tempo.vals, err |-> FALSE]

\* aubioOnsetRate: rate = count / (durSec / 60), nil when durSec <= 0
aubioOnsetRate(s, e, durSec) ==
    IF ~s.aubio THEN [rate |-> None, count |-> 0, err |-> TRUE]
    ELSE IF durSec <= 0 THEN [rate |-> None, count |-> e.onset, err |-> FALSE]
    ELSE [rate |-> Some(Frac(60 * e.onset, durSec)), count |-> e.onset,
          err |-> FALSE]

\* sort.Float64s (ascending)
RECURSIVE Insert(_, _)
Insert(x, s) == IF s = <<>> THEN <<x>>
                ELSE IF x <= s[1] THEN <<x>> \o s
                ELSE <<s[1]>> \o Insert(x, Tail(s))

RECURSIVE Float64s(_)
Float64s(s) == IF s = <<>> THEN <<>> ELSE Insert(s[1], Float64s(Tail(s)))

\* hzToMIDI = 69 + 12*log2(hz/440), in hundredths of a semitone, tabulated
\* for the frequencies the pitch tool prints in this model
hzToMIDI(hz) ==
    CASE hz = 440 -> 6900
      [] hz = 262 -> 6002
      [] hz = 220 -> 5700
      [] hz = 8   -> -38
      [] hz = 7   -> -269
      [] hz = 4   -> -1238

\* math.Round on hundredths: nearest integer, halves away from zero
Round100(x) == IF x >= 0 THEN (x + 50) \div 100 ELSE -((-x + 50) \div 100)

NoteNames == <<"C", "C#", "D", "D#", "E", "F", "F#", "G", "G#", "A", "A#", "B">>

\* midiToNoteName: notes[(m+1200) % 12] and octave m/12 - 1, with Go's
\* truncating / and %; panic when the index is negative
midiToNoteName(m) ==
    LET n   == GoMod(m + 1200, 12)
        oct == GoDiv(m, 12) - 1
    IN  IF n < 0 THEN [panic |-> TRUE, name |-> "", oct |-> oct]
        ELSE [panic |-> FALSE, name |-> NoteNames[n + 1], oct |-> oct]

\* aubioPitchStats: the positive values of the last field of each line
aubioPitchStats(s, e) ==
    IF ~s.aubio THEN [ps |-> None, err |-> TRUE]
    ELSE LET raw == SelectSeq(e.pitch, LAMBDA v : v > 0)
             Hz  == Float64s(raw)
         IN  IF Len(Hz) = 0
             THEN [ps |-> Some([HzMedian |-> None, HzMean |-> None,
                                HzMin |-> None, HzMax |-> None,
                                MIDIMedian |-> None, Note |-> None]),
                   err |-> FALSE]
             ELSE LET med  == Hz[(Len(Hz) \div 2) + 1]
                      midi == hzToMIDI(med)
                  IN  [ps |-> Some([HzMedian |-> Some(med),
                                    HzMean |-> Some(mean(Hz)),
                                    HzMin |-> Some(Hz[1]),
                                    HzMax |-> Some(Hz[Len(Hz)]),
                                    MIDIMedian |-> Some(midi),
                                    Note |-> Some(midiToNoteName(Round100(midi)))]),
                       err |-> FALSE]

\* strings.ToLower on the key letters the key tool prints
ToLower(c) ==
    CASE c = "A" -> "a" [] c = "B" -> "b" [] c = "C" -> "c" [] c = "D" -> "d"
      [] c = "E" -> "e" [] c = "F" -> "f" [] c = "G" -> "g" [] OTHER -> c

ToUpper(c) ==
    CASE c = "a" -> "A" [] c = "b" -> "B" [] c = "c" -> "C" [] c = "d" -> "D"
      [] c = "e" -> "E" [] c = "f" -> "F" [] c = "g" -> "G" [] OTHER -> c

KeyLetters == {"A", "B", "C", "D", "E", "F", "G"}

\* aubioKey: the key regexp ([A-G][#b]?)\s+(scale)? runs on ToLower(out);
\* e.key.letter / scale / conf are what the tool printed (None = nothing)
aubioKey(s, e) ==
    IF ~s.aubio THEN [k |-> None, err |-> TRUE]
    ELSE LET low     == IF e.key.letter = None THEN None
                        ELSE Some(ToLower(Deref(e.key.letter)))
             matched == IsSome(low) /\ Deref(low) \in KeyLetters
             key     == IF matched THEN Some(ToUpper(Deref(low))) ELSE None
             scale   == IF matched THEN e.key.scale ELSE None
             conf    == e.key.conf
         IN  [k |-> Some([Key |-> key, Scale |-> scale, Conf |-> conf]),
              err |-> FALSE]

----------------------------------------------------------------------------
(* analyzeFile *)

\* the LevelStats literal with the crest operands exchanged
LevelLiteralCrestSwapped(vd, astatsMap) ==
    [PeakDB |-> vd.peak, RMSDB |-> vd.rms, CrestDB |-> vd.rms - vd.peak,
     TruePeakDBTP |-> None, HeadroomDB |-> 0,
     DCOffset |-> MapGet(astatsMap, "dc_offset"),
     ZeroXRate |-> MapGet(astatsMap, "zero_crossings_rate"),
     NoiseFloor |-> MapGet(astatsMap, "noise_floor"),
     ClipSamples |-> None, ClipPercent |-> None]

\* the LevelStats literal: absent pointers are nil, HeadroomDB still zero
LevelLiteral(vd, astatsMap) ==
    [PeakDB |-> vd.peak, RMSDB |-> vd.rms, CrestDB |-> vd.peak - vd.rms,
     TruePeakDBTP |-> None, HeadroomDB |-> 0,
     DCOffset |-> MapGet(astatsMap, "dc_offset"),
     ZeroXRate |-> MapGet(astatsMap, "zero_crossings_rate"),
     NoiseFloor |-> MapGet(astatsMap, "noise_floor"),
     ClipSamples |-> None, ClipPercent |-> None]

\* the clip percentage over duration * sampleRate, channels forgotten
ClipStatsNoChannels(lv, astatsMap, probe) ==
    IF MapHas(astatsMap, "number_of_clipped_samples")
    THEN LET c == MapGet(astatsMap, "number_of_clipped_samples")
         IN  IF probe.Duration > 0 /\ probe.SampleRate > 0
             THEN LET total == probe.Duration * probe.SampleRate
                  IN  [lv EXCEPT !.ClipSamples = Some(c),
                                 !.ClipPercent = Some(Frac(100 * c, total))]
             ELSE [lv EXCEPT !.ClipSamples = Some(c)]
    ELSE lv

\* clipped-sample count and percentage
ClipStats(lv, astatsMap, probe) ==
    IF MapHas(astatsMap, "number_of_clipped_samples")
    THEN LET c == MapGet(astatsMap, "number_of_clipped_samples")
         IN  IF probe.Duration > 0 /\ probe.SampleRate > 0 /\ probe.Channels > 0
             THEN LET total == probe.Duration * (probe.SampleRate * probe.Channels)
                  IN  [lv EXCEPT !.ClipSamples = Some(c),
                                 !.ClipPercent = Some(Frac(100 * c, total))]
             ELSE [lv EXCEPT !.ClipSamples = Some(c)]
    ELSE lv

\* lv.HeadroomDB = 0 - lv.PeakDB
Headroom(lv) == [lv EXCEPT !.HeadroomDB = 0 - lv.PeakDB]

\* the loudness probe run whether or not -no-ebur128 was given
LoudnessStepAlways(c, e, lv) ==
    IF ~ffmpegEBUR128(e).err
    THEN LET v == ffmpegEBUR128(e).l
         IN  [lufs |-> Some(v),
              lv |-> IF v.TruePeak # None
                     THEN [lv EXCEPT !.TruePeakDBTP = v.TruePeak] ELSE lv]
    ELSE [lufs |-> None, lv |-> lv]

\* the loudness probe and the true-peak back-fill
LoudnessStep(c, e, lv) ==
    IF c.UseEBUR128 /\ ~ffmpegEBUR128(e).err
    THEN LET v == ffmpegEBUR128(e).l
         IN  [lufs |-> Some(v),
              lv |-> IF v.TruePeak # None
                     THEN [lv EXCEPT !.TruePeakDBTP = v.TruePeak] ELSE lv]
    ELSE [lufs |-> None, lv |-> lv]

\* the band loop appending a BandStat whether or not the probe succeeded
BandLoopKeepFailed(c, e) ==
    IF ~c.UseBands THEN <<>>
    ELSE [j \in 1..Len(c.Bands) |->
            [Band |-> c.Bands[j],
             PeakDB |-> ffmpegBandLoudness(e, j).peak,
             RMSDB |-> ffmpegBandLoudness(e, j).rms]]

\* the band loop: one BandStat per band whose probe succeeds
BandLoop(c, e) ==
    IF ~c.UseBands THEN <<>>
    ELSE LET ok == SelectSeq([i \in 1..Len(c.Bands) |-> i],
                             LAMBDA i : ~ffmpegBandLoudness(e, i).err)
         IN  [j \in 1..Len(ok) |->
                [Band |-> c.Bands[ok[j]],
                 PeakDB |-> ffmpegBandLoudness(e, ok[j]).peak,
                 RMSDB |-> ffmpegBandLoudness(e, ok[j]).rms]]

\* silence total and ratio with the ratio computed for any duration
SilenceTotalsUnguarded(sil, probe) ==
    IF Len(sil) > 0
    THEN LET dur == SumSeq([i \in 1..Len(sil) |-> sil[i].End - sil[i].Start])
         IN  [total |-> Some(dur), ratio |-> Some(Frac(dur, probe.Duration))]
    ELSE [total |-> None, ratio |-> None]

\* silence total and ratio
SilenceTotals(sil, probe) ==
    IF Len(sil) > 0
    THEN LET dur == SumSeq([i \in 1..Len(sil) |-> sil[i].End - sil[i].Start])
         IN  [total |-> Some(dur),
              ratio |-> IF probe.Duration > 0
                        THEN Some(Frac(dur, probe.Duration)) ELSE None]
    ELSE [total |-> None, ratio |-> None]

\* med := series[len(series)/2]
MedianOf(series) == series[(Len(series) \div 2) + 1]

\* the tempo block: the onset probe runs only after a successful tempo probe
TempoStep(c, s, e, probe) ==
    IF c.BPMEngine = "aubio"
    THEN IF ~aubioBPMSeries(s, e).err
         THEN LET series == aubioBPMSeries(s, e).series
                  on     == aubioOnsetRate(s, e, probe.Duration)
              IN  [tempo |-> Some([BPMMedian |-> Some(MedianOf(series)),
                                   BPMMean |-> Some(mean(series)),
                                   BPMStd |-> Some(stddev(series)),
                                   Events |-> on.count,
                                   OnsetPerMin |-> on.rate]),
                   calls |-> <<"tempo", "onset">>]
         ELSE [tempo |-> None, calls |-> <<"tempo">>]
    ELSE [tempo |-> None, calls |-> <<>>]

\* the four note rules, in source order; a note is kept as the rule and the
\* values its format string prints
ClipNote(lv) ==
    IF lv.ClipSamples # None /\ Deref(lv.ClipSamples) > 0
    THEN <<[rule |-> "clipping", count |-> Deref(lv.ClipSamples),
            value |-> derefFloat(lv.ClipPercent)]>>
    ELSE <<>>

\* the true-peak rule with >= in place of >
TruePeakNoteNonStrict(lv) ==
    IF lv.TruePeakDBTP # None /\ Deref(lv.TruePeakDBTP) >= TruePeakLimit
    THEN <<[rule |-> "truepeak", count |-> 0,
            value |-> Frac(Deref(lv.TruePeakDBTP), 10)]>>
    ELSE <<>>

TruePeakNote(lv) ==
    IF lv.TruePeakDBTP # None /\ Deref(lv.TruePeakDBTP) > TruePeakLimit
    THEN <<[rule |-> "truepeak", count |-> 0,
            value |-> Frac(Deref(lv.TruePeakDBTP), 10)]>>
    ELSE <<>>

FlatnessNote(spec) ==
    IF spec.Flatness # None /\ Deref(spec.Flatness) > FlatnessLimit
    THEN <<[rule |-> "flatness", count |-> 0, value |-> Frac(0, 1)]>>
    ELSE <<>>

CorrelationNote(st) ==
    IF st.Correlation # None /\ Deref(st.Correlation) < CorrelationLimit
    THEN <<[rule |-> "correlation", count |-> 0, value |-> Frac(0, 1)]>>
    ELSE <<>>

NotesOf(lv, spec, st) ==
    ClipNote(lv) \o TruePeakNote(lv) \o FlatnessNote(spec) \o CorrelationNote(st)

BandCalls(c) == IF c.UseBands THEN [i \in 1..Len(c.Bands) |-> "band"] ELSE <<>>

\* the probes analyzeFile invokes after ffprobe, in call order
ProbeCalls(c, s, e, probe) ==
    <<"volumedetect", "astats">>
    \o (IF c.UseEBUR128 THEN <<"ebur128">> ELSE <<>>)
    \o <<"spectral", "stereo">>
    \o BandCalls(c)
    \o <<"silence">>
    \o TempoStep(c, s, e, probe).calls
    \o <<"pitch", "key">>

\* analyzeFile(cfg, in): (nil, err) when os.Stat or ffprobeInfo fails
analyzeFile(c, s, e) ==
    IF ~e.stat THEN [a |-> None, err |-> TRUE, calls |-> <<>>]
    ELSE IF ffprobeInfo(e).err
    THEN [a |-> None, err |-> TRUE, calls |-> <<"ffprobe">>]
    ELSE LET probe     == ffprobeInfo(e).p
             vd        == ffmpegVolumedetect(e)
             astatsMap == ffmpegAstatsOverall(e).stats
             lv        == Headroom(ClipStats(LevelLiteral(vd, astatsMap),
                                             astatsMap, probe))
             ld        == LoudnessStep(c, e, lv)
             sil       == detectSilences(e)
             st        == SilenceTotals(sil, probe)
             spec      == ffmpegSpectral(e)
             stereo    == ffmpegStereoStuff(e)
             key       == aubioKey(s, e)
         IN  [a |-> Some([Probe |-> probe, Level |-> ld.lv,
                          Loudness |-> ld.lufs, Stereo |-> stereo,
                          Spectral |-> spec, Bands |-> BandLoop(c, e),
                          Tempo |-> TempoStep(c, s, e, probe).tempo,
                          Pitch |-> aubioPitchStats(s, e).ps,
                          Key |-> IF ~key.err THEN key.k ELSE None,
                          Silence |-> sil, SilenceRatio |-> st.ratio,
                          SilenceTotal |-> st.total,
                          Notes |-> NotesOf(ld.lv, spec, stereo)]),
              err |-> FALSE,
              calls |-> <<"ffprobe">> \o ProbeCalls(c, s, e, probe)]

----------------------------------------------------------------------------
(* compare and splitBySilence *)

\* the keys compare puts in the delta map
DeltaKeys(a, b) ==
    {"peak_db", "rms_db", "crest_db", "stereo_side_mid_db", "duration_s"}
    \cup (IF a.Loudness # None /\ b.Loudness # None
          THEN {"lufs_integrated", "lufs_range"} ELSE {})
    \cup (IF /\ a.Tempo # None /\ b.Tempo # None
             /\ Deref(a.Tempo).BPMMedian # None
             /\ Deref(b.Tempo).BPMMedian # None
          THEN {"bpm_median"} ELSE {})

compare(a, b) ==
    [A |-> a, B |-> b,
     Delta |-> [k \in DeltaKeys(a, b) |->
        CASE k = "peak_db" -> b.Level.PeakDB - a.Level.PeakDB
          [] k = "rms_db" -> b.Level.RMSDB - a.Level.RMSDB
          [] k = "crest_db" -> b.Level.CrestDB - a.Level.CrestDB
          [] k = "lufs_integrated" ->
                Deref(b.Loudness).Integrated - Deref(a.Loudness).Integrated
          [] k = "lufs_range" -> Deref(b.Loudness).Range - Deref(a.Loudness).Range
          [] k = "stereo_side_mid_db" ->
                b.Stereo.SideMidRatioDB - a.Stereo.SideMidRatioDB
          [] k = "bpm_median" ->
                Deref(Deref(b.Tempo).BPMMedian) - Deref(Deref(a.Tempo).BPMMedian)
          [] k = "duration_s" -> b.Probe.Duration - a.Probe.Duration]]

Min(x, y) == IF x <= y THEN x ELSE y

Max(x, y) == IF x >= y THEN x ELSE y

\* the walk with a strict threshold: a span of exactly minSilDur is no cut
RECURSIVE WalkStrict(_, _, _, _)
WalkStrict(spans, minSilDur, start, segs) ==
    IF spans = <<>> THEN [segs |-> segs, start |-> start]
    ELSE IF (spans[1].End - spans[1].Start) > minSilDur
    THEN WalkStrict(Tail(spans), minSilDur, spans[1].End,
                    Append(segs, [start |-> start, end |-> spans[1].Start]))
    ELSE WalkStrict(Tail(spans), minSilDur, start, segs)

\* the walk that leaves the cursor where it was after a cut
RECURSIVE WalkKeepCursor(_, _, _, _)
WalkKeepCursor(spans, minSilDur, start, segs) ==
    IF spans = <<>> THEN [segs |-> segs, start |-> start]
    ELSE IF (spans[1].End - spans[1].Start) >= minSilDur
    THEN WalkKeepCursor(Tail(spans), minSilDur, start,
                        Append(segs, [start |-> start, end |-> spans[1].Start]))
    ELSE WalkKeepCursor(Tail(spans), minSilDur, start, segs)

\* the walk over the silence spans: segs and the cursor after the spans
RECURSIVE Walk(_, _, _, _)
Walk(spans, minSilDur, start, segs) ==
    IF spans = <<>> THEN [segs |-> segs, start |-> start]
    ELSE IF (spans[1].End - spans[1].Start) >= minSilDur
    THEN Walk(Tail(spans), minSilDur, spans[1].End,
              Append(segs, [start |-> start, end |-> spans[1].Start]))
    ELSE Walk(Tail(spans), minSilDur, start, segs)

\* segs without the trailing segment after the last cut
SegmentsNoTrailing(spans, dur, minSilDur) ==
    Walk(spans, minSilDur, 0, <<>>).segs

\* segs as built before the "nothing to split" test
Segments(spans, dur, minSilDur) ==
    LET w == Walk(spans, minSilDur, 0, <<>>)
    IN  IF w.start < dur
        THEN Append(w.segs, [start |-> w.start, end |-> dur])
        ELSE w.segs

\* the trim without the min / max clamps
TrimSegUnclamped(sg, trim) ==
    IF trim > 0
    THEN [start |-> sg.start + trim, end |-> sg.end - trim]
    ELSE sg

\* the range handed to ffmpeg for one segment
TrimSeg(sg, trim) ==
    IF trim > 0
    THEN LET s == Min(sg.end, sg.start + trim)
         IN  [start |-> s, end |-> Max(s, sg.end - trim)]
    ELSE sg

\* decimal digits of n, most significant first
RECURSIVE Decimal(_)
Decimal(n) == IF n < 10 THEN <<n>> ELSE Append(Decimal(n \div 10), n % 10)

\* fmt.Sprintf("%s-part%02d%s", base, i+1, ext) for the segment numbered n
\* from 1: base and extension of the input path, n padded to two digits
PartName(n) ==
    [base |-> "base", part |-> IF n < 10 THEN <<0, n>> ELSE Decimal(n),
     ext |-> "ext"]

\* splitBySilence returning the path of the failed cut as well
splitBySilenceKeepFailed(a, minSilDur, trim, failAt) ==
    LET segs == Segments(a.Silence, a.Probe.Duration, minSilDur)
    IN  IF Len(segs) <= 1
        THEN [cuts |-> <<>>, outs |-> <<>>, err |-> FALSE]
        ELSE LET last == IF failAt = 0 THEN Len(segs) ELSE failAt
             IN  [cuts |-> [i \in 1..last |->
                              [part |-> i, range |-> TrimSeg(segs[i], trim)]],
                  outs |-> [i \in 1..last |-> PartName(i)],
                  err |-> failAt # 0]

\* splitBySilence without the "nothing to split" return
splitBySilenceNoShortcut(a, minSilDur, trim, failAt) ==
    LET segs == Segments(a.Silence, a.Probe.Duration, minSilDur)
        last == IF failAt = 0 THEN Len(segs) ELSE failAt
    IN  [cuts |-> [i \in 1..last |->
                     [part |-> i, range |-> TrimSeg(segs[i], trim)]],
         outs |-> [i \in 1..(IF failAt = 0 THEN Len(segs) ELSE failAt - 1)
                     |-> PartName(i)],
         err |-> failAt # 0]

\* splitBySilence when the cut of segment failAt fails (0: no cut fails):
\* the cuts issued, the paths returned and the error
splitBySilence(a, minSilDur, trim, failAt) ==
    LET segs == Segments(a.Silence, a.Probe.Duration, minSilDur)
    IN  IF Len(segs) <= 1
        THEN [cuts |-> <<>>, outs |-> <<>>, err |-> FALSE]
        ELSE LET last == IF failAt = 0 THEN Len(segs) ELSE failAt
             IN  [cuts |-> [i \in 1..last |->
                              [part |-> i, range |-> TrimSeg(segs[i], trim)]],
                  outs |-> [i \in 1..(IF failAt = 0 THEN Len(segs) ELSE failAt - 1)
                              |-> PartName(i)],
                  err |-> failAt # 0]

----------------------------------------------------------------------------
(* main *)

\* fail(): message on stderr and os.Exit(1)
Fail ==
    /\ pc' = "done"
    /\ exit' = Some(1)

\* no positional argument (mode ""): usage and os.Exit(2)
NoArgs ==
    /\ pc = "start"
    /\ mode = ""
    /\ pc' = "done"
    /\ exit' = Some(2)
    /\ UNCHANGED stemVars
    /\ UNCHANGED <<sys, mode, cfg, splitSec, trimSec, files, a1, a2, calls,
                   outFile, cuts, outs>>

\* mustHave(ffmpeg), mustHave(ffprobe), and BPMEngine falls back to "none"
\* when aubio is not found
CheckTools ==
    /\ pc = "start"
    /\ mode # ""
    /\ IF ~sys.ffmpeg \/ ~sys.ffprobe
       THEN Fail /\ UNCHANGED cfg
       ELSE /\ cfg' = IF cfg.BPMEngine = "aubio" /\ ~sys.aubio
                      THEN [cfg EXCEPT !.BPMEngine = "none"] ELSE cfg
            /\ pc' = "dispatch"
            /\ UNCHANGED exit
    /\ UNCHANGED stemVars
    /\ UNCHANGED <<sys, mode, splitSec, trimSec, files, a1, a2, calls,
                   outFile, cuts, outs>>

\* neither full nor compare: usage and os.Exit(2)
Usage ==
    /\ pc = "dispatch"
    /\ mode \notin {"full", "compare"}
    /\ pc' = "done"
    /\ exit' = Some(2)
    /\ UNCHANGED stemVars
    /\ UNCHANGED <<sys, mode, cfg, splitSec, trimSec, files, a1, a2, calls,
                   outFile, cuts, outs>>

Logged(i, names) == [j \in 1..Len(names) |-> <<i, names[j]>>]

\* full: a, err := analyzeFile(cfg, in)
FullAnalyze ==
    /\ pc = "dispatch"
    /\ mode = "full"
    /\ IF Len(files) < 1
       THEN Fail /\ UNCHANGED <<a1, calls>>
       ELSE LET r == analyzeFile(cfg, sys, files[1])
            IN  /\ calls' = calls \o Logged(1, r.calls)
                /\ IF r.err
                   THEN Fail /\ UNCHANGED a1
                   ELSE a1' = r.a /\ pc' = "full_analyzed" /\ UNCHANGED exit
    /\ UNCHANGED stemVars
    /\ UNCHANGED <<sys, mode, cfg, splitSec, trimSec, files, a2, outFile,
                   cuts, outs>>

\* one printed piece of a report: the section it is in and the Analysis
\* field it prints ("header" for a section title, "row" for a list entry)
Item(sec, field, val) == [sec |-> sec, field |-> field, val |-> val]

\* an absent value printed as a placeholder
OptPlaceholder(p, sec, field) ==
    IF p # None THEN <<Item(sec, field, Deref(p))>>
    ELSE <<Item(sec, field, "N/A")>>

\* if p != nil { Fprintf(..., *p) }
Opt(p, sec, field) == IF p # None THEN <<Item(sec, field, Deref(p))>> ELSE <<>>

\* renderTXT: the pieces of the plain-text report, in print order
renderTXT(a) ==
    <<Item("Probe", "Duration", a.Probe.Duration),
      Item("Probe", "SampleRate", a.Probe.SampleRate),
      Item("Probe", "Channels", a.Probe.Channels)>>
    \o <<Item("Levels", "PeakDB", a.Level.PeakDB), Item("Levels", "RMSDB", a.Level.RMSDB),
         Item("Levels", "CrestDB", a.Level.CrestDB),
         Item("Levels", "HeadroomDB", a.Level.HeadroomDB)>>
    \o Opt(a.Level.TruePeakDBTP, "Levels", "TruePeakDBTP")
    \o (IF a.Level.ClipSamples # None /\ a.Level.ClipPercent # None
        THEN <<Item("Levels", "ClipSamples", Deref(a.Level.ClipSamples)),
               Item("Levels", "ClipPercent", Deref(a.Level.ClipPercent))>>
        ELSE <<>>)
    \o <<Item("Levels", "DCOffset", a.Level.DCOffset),
         Item("Levels", "ZeroXRate", a.Level.ZeroXRate),
         Item("Levels", "NoiseFloor", a.Level.NoiseFloor)>>
    \o (IF a.Loudness # None
        THEN <<Item("Loudness", "Integrated", Deref(a.Loudness).Integrated),
               Item("Loudness", "Range", Deref(a.Loudness).Range)>>
             \o Opt(Deref(a.Loudness).TruePeak, "Loudness", "TruePeak")
        ELSE <<>>)
    \o <<Item("Stereo", "MidRMS", a.Stereo.MidRMS),
         Item("Stereo", "SideRMS", a.Stereo.SideRMS),
         Item("Stereo", "SideMidRatioDB", a.Stereo.SideMidRatioDB)>>
    \o Opt(a.Stereo.Correlation, "Stereo", "Correlation")
    \o (IF a.Spectral.Centroid # None \/ a.Spectral.Flatness # None
           \/ a.Spectral.Rolloff95 # None
        THEN <<Item("Spectral", "header", 0)>>
             \o Opt(a.Spectral.Centroid, "Spectral", "Centroid")
             \o Opt(a.Spectral.Rolloff95, "Spectral", "Rolloff95")
             \o Opt(a.Spectral.Flatness, "Spectral", "Flatness")
             \o Opt(a.Spectral.Spread, "Spectral", "Spread")
             \o Opt(a.Spectral.Skewness, "Spectral", "Skewness")
             \o Opt(a.Spectral.Kurtosis, "Spectral", "Kurtosis")
        ELSE <<>>)
    \o (IF a.Tempo # None
        THEN <<Item("Tempo", "header", 0)>>
             \o Opt(Deref(a.Tempo).BPMMedian, "Tempo", "BPMMedian")
             \o Opt(Deref(a.Tempo).BPMMean, "Tempo", "BPMMean")
             \o Opt(Deref(a.Tempo).BPMStd, "Tempo", "BPMStd")
             \o <<Item("Tempo", "Events", Deref(a.Tempo).Events)>>
             \o Opt(Deref(a.Tempo).OnsetPerMin, "Tempo", "OnsetPerMin")
        ELSE <<>>)
    \o (IF /\ a.Pitch # None
           /\ (Deref(a.Pitch).HzMedian # None \/ Deref(a.Pitch).Note # None)
        THEN <<Item("Pitch", "header", 0)>>
             \o Opt(Deref(a.Pitch).HzMedian, "Pitch", "HzMedian")
             \o Opt(Deref(a.Pitch).HzMean, "Pitch", "HzMean")
             \o (IF Deref(a.Pitch).HzMin # None /\ Deref(a.Pitch).HzMax # None
                 THEN <<Item("Pitch", "HzMin", Deref(Deref(a.Pitch).HzMin)),
                        Item("Pitch", "HzMax", Deref(Deref(a.Pitch).HzMax))>>
                 ELSE <<>>)
             \o Opt(Deref(a.Pitch).MIDIMedian, "Pitch", "MIDIMedian")
             \o Opt(Deref(a.Pitch).Note, "Pitch", "Note")
        ELSE <<>>)
    \o (IF /\ a.Key # None
           /\ (Deref(a.Key).Key # None \/ Deref(a.Key).Scale # None)
        THEN <<Item("Key", "header", 0)>>
             \o Opt(Deref(a.Key).Key, "Key", "Key")
             \o Opt(Deref(a.Key).Scale, "Key", "Scale")
             \o Opt(Deref(a.Key).Conf, "Key", "Conf")
        ELSE <<>>)
    \o (IF Len(a.Bands) > 0
        THEN <<Item("Bands", "header", 0)>>
             \o [i \in 1..Len(a.Bands) |-> Item("Bands", "row", a.Bands[i])]
        ELSE <<>>)
    \o (IF Len(a.Silence) > 0
        THEN <<Item("Silence", "header", 0)>>
             \o [i \in 1..Len(a.Silence) |-> Item("Silence", "row", a.Silence[i])]
             \o Opt(a.SilenceTotal, "Silence", "SilenceTotal")
             \o Opt(a.SilenceRatio, "Silence", "SilenceRatio")
        ELSE <<>>)
    \o (IF Len(a.Notes) > 0
        THEN <<Item("Notes", "header", 0)>>
             \o [i \in 1..Len(a.Notes) |-> Item("Notes", "row", a.Notes[i])]
        ELSE <<>>)

\* renderMD: the pieces of the markdown report, in print order
renderMD(a) ==
    <<Item("Probe", "Duration", a.Probe.Duration),
      Item("Probe", "SampleRate", a.Probe.SampleRate),
      Item("Probe", "Channels", a.Probe.Channels)>>
    \o <<Item("Levels", "PeakDB", a.Level.PeakDB), Item("Levels", "RMSDB", a.Level.RMSDB),
         Item("Levels", "CrestDB", a.Level.CrestDB),
         Item("Levels", "HeadroomDB", a.Level.HeadroomDB)>>
    \o Opt(a.Level.TruePeakDBTP, "Levels", "TruePeakDBTP")
    \o (IF a.Level.ClipSamples # None /\ a.Level.ClipPercent # None
        THEN <<Item("Levels", "ClipSamples", Deref(a.Level.ClipSamples)),
               Item("Levels", "ClipPercent", Deref(a.Level.ClipPercent))>>
        ELSE <<>>)
    \o <<Item("Levels", "DCOffset", a.Level.DCOffset),
         Item("Levels", "ZeroXRate", a.Level.ZeroXRate),
         Item("Levels", "NoiseFloor", a.Level.NoiseFloor)>>
    \o (IF a.Loudness # None
        THEN <<Item("Loudness", "Integrated", Deref(a.Loudness).Integrated),
               Item("Loudness", "Range", Deref(a.Loudness).Range)>>
             \o Opt(Deref(a.Loudness).TruePeak, "Loudness", "TruePeak")
        ELSE <<>>)
    \o <<Item("Stereo", "MidRMS", a.Stereo.MidRMS),
         Item("Stereo", "SideRMS", a.Stereo.SideRMS),
         Item("Stereo", "SideMidRatioDB", a.Stereo.SideMidRatioDB)>>
    \o Opt(a.Stereo.Correlation, "Stereo", "Correlation")
    \o (IF a.Spectral.Centroid # None \/ a.Spectral.Rolloff95 # None
           \/ a.Spectral.Flatness # None
        THEN <<Item("Spectral", "header", 0)>>
             \o Opt(a.Spectral.Centroid, "Spectral", "Centroid")
             \o Opt(a.Spectral.Rolloff95, "Spectral", "Rolloff95")
             \o Opt(a.Spectral.Flatness, "Spectral", "Flatness")
             \o Opt(a.Spectral.Spread, "Spectral", "Spread")
             \o Opt(a.Spectral.Skewness, "Spectral", "Skewness")
             \o Opt(a.Spectral.Kurtosis, "Spectral", "Kurtosis")
        ELSE <<>>)
    \o (IF a.Tempo # None
        THEN <<Item("Tempo", "header", 0)>>
             \o Opt(Deref(a.Tempo).BPMMedian, "Tempo", "BPMMedian")
             \o Opt(Deref(a.Tempo).BPMMean, "Tempo", "BPMMean")
             \o Opt(Deref(a.Tempo).BPMStd, "Tempo", "BPMStd")
             \o <<Item("Tempo", "Events", Deref(a.Tempo).Events)>>
             \o Opt(Deref(a.Tempo).OnsetPerMin, "Tempo", "OnsetPerMin")
        ELSE <<>>)
    \o (IF /\ a.Pitch # None
           /\ (Deref(a.Pitch).HzMedian # None \/ Deref(a.Pitch).Note # None)
        THEN <<Item("Pitch", "header", 0)>>
             \o Opt(Deref(a.Pitch).HzMedian, "Pitch", "HzMedian")
             \o Opt(Deref(a.Pitch).HzMean, "Pitch", "HzMean")
             \o (IF Deref(a.Pitch).HzMin # None /\ Deref(a.Pitch).HzMax # None
                 THEN <<Item("Pitch", "HzMin", Deref(Deref(a.Pitch).HzMin)),
                        Item("Pitch", "HzMax", Deref(Deref(a.Pitch).HzMax))>>
                 ELSE <<>>)
             \o Opt(Deref(a.Pitch).MIDIMedian, "Pitch", "MIDIMedian")
             \o Opt(Deref(a.Pitch).Note, "Pitch", "Note")
        ELSE <<>>)
    \o (IF /\ a.Key # None
           /\ (Deref(a.Key).Key # None \/ Deref(a.Key).Scale # None)
        THEN <<Item("Key", "header", 0)>>
             \o Opt(Deref(a.Key).Key, "Key", "Key")
             \o Opt(Deref(a.Key).Scale, "Key", "Scale")
             \o Opt(Deref(a.Key).Conf, "Key", "Conf")
        ELSE <<>>)
    \o (IF Len(a.Bands) > 0
        THEN <<Item("Bands", "header", 0)>>
             \o [i \in 1..Len(a.Bands) |-> Item("Bands", "row", a.Bands[i])]
        ELSE <<>>)
    \o (IF Len(a.Silence) > 0
        THEN <<Item("Silence", "header", 0)>>
             \o [i \in 1..Len(a.Silence) |-> Item("Silence", "row", a.Silence[i])]
             \o Opt(a.SilenceTotal, "Silence", "SilenceTotal")
             \o Opt(a.SilenceRatio, "Silence", "SilenceRatio")
        ELSE <<>>)
    \o (IF Len(a.Notes) > 0
        THEN <<Item("Notes", "header", 0)>>
             \o [i \in 1..Len(a.Notes) |-> Item("Notes", "row", a.Notes[i])]
        ELSE <<>>)

\* writeReport(cfg, a, path): the content written for the chosen format; the
\* json case marshals the whole Analysis
writeReport(c, a) ==
    [kind |-> "report", format |-> c.Report,
     body |-> CASE c.Report = "json" -> <<Item("json", "Analysis", a)>>
                [] c.Report = "md" -> renderMD(a)
                [] OTHER -> renderTXT(a)]

\* full: writeReport, which os.WriteFile may fail
FullWriteReport ==
    /\ pc = "full_analyzed"
    /\ \E ok \in BOOLEAN :
         IF ok
         THEN /\ outFile' = Some(writeReport(cfg, Deref(a1)))
              /\ pc' = "full_reported"
              /\ UNCHANGED exit
         ELSE Fail /\ UNCHANGED outFile
    /\ UNCHANGED stemVars
    /\ UNCHANGED <<sys, mode, cfg, splitSec, trimSec, files, a1, a2, calls,
                   cuts, outs>>

\* full: splitBySilence called whatever -split-on-silence is
FullSplitAlways ==
    /\ pc = "full_reported"
    /\ \E failAt \in 0..Len(Segments(Deref(a1).Silence,
                                     Deref(a1).Probe.Duration, splitSec)) :
          LET r == splitBySilence(Deref(a1), splitSec, trimSec, failAt)
          IN  /\ failAt # 0 => Len(r.cuts) > 0
              /\ cuts' = r.cuts
              /\ outs' = r.outs
              /\ IF r.err THEN Fail
                 ELSE pc' = "done" /\ exit' = Some(0)
    /\ UNCHANGED stemVars
    /\ UNCHANGED <<sys, mode, cfg, splitSec, trimSec, files, a1, a2, calls,
                   outFile>>

\* full: splitBySilence when -split-on-silence > 0, then return from main
FullSplit ==
    /\ pc = "full_reported"
    /\ IF splitSec > 0
       THEN \E failAt \in 0..Len(Segments(Deref(a1).Silence,
                                          Deref(a1).Probe.Duration, splitSec)) :
              LET r == splitBySilence(Deref(a1), splitSec, trimSec, failAt)
              IN  /\ failAt # 0 => Len(r.cuts) > 0
                  /\ cuts' = r.cuts
                  /\ outs' = r.outs
                  /\ IF r.err THEN Fail
                     ELSE pc' = "done" /\ exit' = Some(0)
       ELSE /\ pc' = "done"
            /\ exit' = Some(0)
            /\ UNCHANGED <<cuts, outs>>
    /\ UNCHANGED stemVars
    /\ UNCHANGED <<sys, mode, cfg, splitSec, trimSec, files, a1, a2, calls,
                   outFile>>

\* compare: a1, err := analyzeFile(cfg, args[1])
CompareAnalyzeA ==
    /\ pc = "dispatch"
    /\ mode = "compare"
    /\ IF Len(files) < 2
       THEN Fail /\ UNCHANGED <<a1, calls>>
       ELSE LET r == analyzeFile(cfg, sys, files[1])
            IN  /\ calls' = calls \o Logged(1, r.calls)
                /\ IF r.err
                   THEN Fail /\ UNCHANGED a1
                   ELSE a1' = r.a /\ pc' = "cmp_a" /\ UNCHANGED exit
    /\ UNCHANGED stemVars
    /\ UNCHANGED <<sys, mode, cfg, splitSec, trimSec, files, a2, outFile,
                   cuts, outs>>

\* compare: a2, err := analyzeFile(cfg, args[2])
CompareAnalyzeB ==
    /\ pc = "cmp_a"
    /\ LET r == analyzeFile(cfg, sys, files[2])
       IN  /\ calls' = calls \o Logged(2, r.calls)
           /\ IF r.err
              THEN Fail /\ UNCHANGED a2
              ELSE a2' = r.a /\ pc' = "cmp_b" /\ UNCHANGED exit
    /\ UNCHANGED stemVars
    /\ UNCHANGED <<sys, mode, cfg, splitSec, trimSec, files, a1, outFile,
                   cuts, outs>>

\* d.Delta[k] of Go: 0 when the key is missing
DeltaGet(d, k) == IF k \in DOMAIN d.Delta THEN d.Delta[k] ELSE 0

\* one row of the md table: metric name, A, B and delta
MdRow(name, av, bv, dv) == [name |-> name, av |-> av, bv |-> bv, dv |-> dv]

\* the md table with its LUFS and BPM rows printed unconditionally
renderDiffMDAllRows(d) ==
    <<MdRow("Peak dBFS", d.A.Level.PeakDB, d.B.Level.PeakDB, DeltaGet(d, "peak_db")),
      MdRow("RMS dBFS", d.A.Level.RMSDB, d.B.Level.RMSDB, DeltaGet(d, "rms_db")),
      MdRow("Crest dB", d.A.Level.CrestDB, d.B.Level.CrestDB, DeltaGet(d, "crest_db")),
      MdRow("LUFS (integr.)", 0, 0, DeltaGet(d, "lufs_integrated")),
      MdRow("LUFS Range", 0, 0, DeltaGet(d, "lufs_range")),
      MdRow("Side/Mid dB", d.A.Stereo.SideMidRatioDB, d.B.Stereo.SideMidRatioDB,
            DeltaGet(d, "stereo_side_mid_db")),
      MdRow("BPM (median)", 0, 0, DeltaGet(d, "bpm_median")),
      MdRow("Duration (s)", d.A.Probe.Duration, d.B.Probe.Duration,
            DeltaGet(d, "duration_s"))>>

\* renderDiff, case "md": the rows of the table, in print order
renderDiffMD(d) ==
    <<MdRow("Peak dBFS", d.A.Level.PeakDB, d.B.Level.PeakDB, DeltaGet(d, "peak_db")),
      MdRow("RMS dBFS", d.A.Level.RMSDB, d.B.Level.RMSDB, DeltaGet(d, "rms_db")),
      MdRow("Crest dB", d.A.Level.CrestDB, d.B.Level.CrestDB, DeltaGet(d, "crest_db"))>>
    \o (IF d.A.Loudness # None /\ d.B.Loudness # None
        THEN <<MdRow("LUFS (integr.)", Deref(d.A.Loudness).Integrated,
                     Deref(d.B.Loudness).Integrated, DeltaGet(d, "lufs_integrated")),
               MdRow("LUFS Range", Deref(d.A.Loudness).Range,
                     Deref(d.B.Loudness).Range, DeltaGet(d, "lufs_range"))>>
        ELSE <<>>)
    \o <<MdRow("Side/Mid dB", d.A.Stereo.SideMidRatioDB, d.B.Stereo.SideMidRatioDB,
               DeltaGet(d, "stereo_side_mid_db"))>>
    \o (IF /\ d.A.Tempo # None /\ d.B.Tempo # None
            /\ Deref(d.A.Tempo).BPMMedian # None
            /\ Deref(d.B.Tempo).BPMMedian # None
        THEN <<MdRow("BPM (median)", Deref(Deref(d.A.Tempo).BPMMedian),
                     Deref(Deref(d.B.Tempo).BPMMedian), DeltaGet(d, "bpm_median"))>>
        ELSE <<>>)
    \o <<MdRow("Duration (s)", d.A.Probe.Duration, d.B.Probe.Duration,
               DeltaGet(d, "duration_s"))>>

\* the key order of the plain-text diff
DiffKeys ==
    <<"peak_db", "rms_db", "crest_db", "lufs_integrated", "lufs_range",
      "stereo_side_mid_db", "bpm_median", "duration_s">>

\* renderDiff, default case: one line per key of DiffKeys found in the map
\* whose value is neither NaN nor infinite (deltas of parsed numbers are
\* integers here, hence always finite)
renderDiffTXT(d) ==
    LET keys == SelectSeq(DiffKeys, LAMBDA k : k \in DOMAIN d.Delta)
    IN  [i \in 1..Len(keys) |-> [name |-> keys[i], dv |-> d.Delta[keys[i]]]]

\* renderDiff(cfg, diff): the content written for the chosen format; the
\* json case marshals the whole Diff
renderDiff(c, d) ==
    [kind |-> "diff", format |-> c.Report,
     body |-> CASE c.Report = "json" -> <<[name |-> "json", dv |-> d]>>
                [] c.Report = "md" -> renderDiffMD(d)
                [] OTHER -> renderDiffTXT(d)]

\* compare: diff, render and os.WriteFile, which may fail
CompareWrite ==
    /\ pc = "cmp_b"
    /\ \E ok \in BOOLEAN :
         IF ok
         THEN /\ outFile' = Some(renderDiff(cfg, compare(Deref(a1), Deref(a2))))
              /\ pc' = "done"
              /\ exit' = Some(0)
         ELSE Fail /\ UNCHANGED outFile
    /\ UNCHANGED stemVars
    /\ UNCHANGED <<sys, mode, cfg, splitSec, trimSec, files, a1, a2, calls,
                   cuts, outs>>

Next ==
    \/ NoArgs
    \/ CheckTools
    \/ Usage
    \/ FullAnalyze
    \/ FullWriteReport
    \/ FullSplit
    \/ CompareAnalyzeA
    \/ CompareAnalyzeB
    \/ CompareWrite

----------------------------------------------------------------------------
(* The split tool (src/split): parseFlags *)

\* the cutoff flags, named as on the command line
CutoffFlags ==
    {"bass-hp", "bass-lp", "drums-hp", "drums-lp", "music-hp", "music-lp",
     "vocal-hp", "vocal-lp"}

\* the defaults given to flag.Float64Var for the cutoffs (Hz)
CutoffDefault(name) ==
    CASE name = "bass-hp" -> 30
      [] name = "bass-lp" -> 180
      [] name = "drums-hp" -> 35
      [] name = "drums-lp" -> 160
      [] name = "music-hp" -> 180
      [] name = "music-lp" -> 18000
      [] name = "vocal-hp" -> 160
      [] name = "vocal-lp" -> 9000

\* strings.ToLower(strings.TrimSpace(s)) on the words of the inputs
LowerTrim(s) ==
    CASE s = " Bass" -> "bass"
      [] s = "Soft" -> "soft"
      [] s = "HARD" -> "hard"
      [] OTHER -> s

\* clamp01, in hundredths
clamp01(v) == IF v < 0 THEN 0 ELSE IF v > 100 THEN 100 ELSE v

\* parseFlags: the flag defaults, then flag.Parse storing what the command
\* line sets, then the stem selection, then the preset switch
parseFlags(av) ==
    LET set(name) == IF av.cut[name] = None THEN CutoffDefault(name)
                     ELSE Deref(av.cut[name])
        want(s)   == \E i \in 1..Len(av.stems) : LowerTrim(av.stems[i]) = s
        none      == ~want("bass") /\ ~want("drums") /\ ~want("music")
                     /\ ~want("vocal")
        p         == LowerTrim(av.preset)
    IN  [engine |-> av.engine, outFormat |-> av.outFormat,
         wantBass |-> none \/ want("bass"),
         wantDrum |-> none \/ want("drums"),
         wantMusic |-> none \/ want("music"),
         wantVox |-> none \/ want("vocal"),
         preset |-> IF p \in {"soft", "medium"} THEN av.preset ELSE "hard",
         autoGain |-> av.autoGain, preGainDB |-> av.preGainDB,
         gainBassDB |-> av.gainBassDB, gainDrumDB |-> 6, gainMusicDB |-> 4,
         gainVocalDB |-> 4,
         bassHP |-> CASE p = "soft" -> 25 [] p = "medium" -> 30 [] OTHER -> 30,
         bassLP |-> CASE p = "soft" -> 220 [] p = "medium" -> 200 [] OTHER -> 180,
         drumsHP |-> CASE p = "soft" -> 30 [] p = "medium" -> 35 [] OTHER -> 38,
         drumsLP |-> CASE p = "soft" -> 200 [] p = "medium" -> 180 [] OTHER -> 160,
         musicHP |-> CASE p = "soft" -> 160 [] p = "medium" -> 180 [] OTHER -> 190,
         musicLP |-> set("music-lp"),
         vocalHP |-> set("vocal-hp"),
         vocalLP |-> set("vocal-lp"),
         vocalMid |-> clamp01(av.vocalMid)]

----------------------------------------------------------------------------
(* The split tool: the ffmpeg and demucs engines *)

\* one filter of a chain: name, printed numbers, remaining options
Filter(f, v, opts) == [f |-> f, v |-> v, opts |-> opts]

\* the empty string among the filters
NoFilter == Filter("", <<>>, "")

\* preChain: the filters ahead of every stem's chain
preChain(c) ==
    (IF c.preGainDB # 0 THEN <<Filter("volume", <<c.preGainDB>>, "dB")>> ELSE <<>>)
    \o (IF c.autoGain THEN <<Filter("dynaudnorm", <<>>, "f=250:g=10:n=0")>>
        ELSE <<>>)

\* volumeDB: no filter for a gain of 0
volumeDB(db) == IF db = 0 THEN NoFilter ELSE Filter("volume", <<db>>, "dB")

\* chain: pre (dropped when empty) and the non-empty filters, joined in order
chain(pre, filters) == pre \o SelectSeq(filters, LAMBDA f : f # NoFilter)

\* %0.3f of a number given in ten-thousandths, as thousandths
Fmt3(x) == IF x >= 0 THEN (x + 5) \div 10 ELSE -((-x + 5) \div 10)

\* the codec ffmpegFilterTo and transcode choose from the extension
Codec(outFormat) ==
    CASE outFormat = "mp3" -> "libmp3lame"
      [] outFormat \in {"m4a", "aac"} -> "aac"
      [] outFormat = "flac" -> "flac"
      [] OTHER -> "pcm_s16le"

\* the jobs runFfmpegPseudoStems builds, in order
StemJobs(c) ==
    LET pre == preChain(c)
        job(name, f) == [name |-> name, filter |-> f, ext |-> c.outFormat,
                         codec |-> Codec(c.outFormat)]
    IN  (IF c.wantBass
         THEN <<job("bass", chain(pre,
                   <<Filter("highpass", <<c.bassHP>>, ""),
                     Filter("lowpass", <<c.bassLP>>, "width_type=h:width=36"),
                     Filter("acompressor", <<>>,
                            "threshold=-24dB:ratio=4:attack=8:release=140:makeup=0"),
                     Filter("alimiter", <<>>, "limit=0.93"),
                     volumeDB(c.gainBassDB)>>))>>
         ELSE <<>>)
        \o (IF c.wantDrum
            THEN <<job("drums", chain(pre,
                      <<Filter("highpass", <<c.drumsHP>>, ""),
                        Filter("lowpass", <<c.drumsLP>>, ""),
                        Filter("agate", <<>>,
                               "threshold=-45dB:ratio=10:attack=3:release=80"),
                        Filter("acompressor", <<>>,
                               "threshold=-18dB:ratio=6:attack=4:release=80:knee=2"),
                        Filter("alimiter", <<>>, "limit=0.93"),
                        volumeDB(c.gainDrumDB)>>))>>
            ELSE <<>>)
        \o (IF c.wantMusic
            THEN <<job("music", chain(pre,
                      <<Filter("highpass", <<c.musicHP>>, ""),
                        Filter("stereotools", <<>>, "mlev=0.35:slev=1.10"),
                        Filter("lowpass", <<c.musicLP>>, ""),
                        Filter("alimiter", <<>>, "limit=0.93"),
                        volumeDB(c.gainMusicDB)>>))>>
            ELSE <<>>)
        \o (IF c.wantVox
            THEN <<job("vocal", chain(pre,
                      <<Filter("stereotools",
                               <<c.vocalMid * 10,
                                 Fmt3((100 - c.vocalMid) * (-25))>>, "mlev:slev"),
                        Filter("highpass", <<c.vocalHP>>, ""),
                        Filter("lowpass", <<c.vocalLP>>, ""),
                        Filter("alimiter", <<>>, "limit=0.93"),
                        volumeDB(c.gainVocalDB)>>))>>
            ELSE <<>>)

\* runFfmpegPseudoStems when the job numbered failAt fails (0: none fails):
\* the ffmpeg runs made, in order, and the error
runFfmpegPseudoStems(c, failAt) ==
    LET all == StemJobs(c)
    IN  [jobs |-> SubSeq(all, 1, IF failAt = 0 THEN Len(all) ELSE failAt),
         err |-> failAt # 0]

\* the stems runDemucs copies, in the order of its mappings
DemucsMappings(c) ==
    SelectSeq(<<[dem |-> "bass.wav", ours |-> "bass", ok |-> c.wantBass],
                [dem |-> "drums.wav", ours |-> "drums", ok |-> c.wantDrum],
                [dem |-> "vocals.wav", ours |-> "vocal", ok |-> c.wantVox],
                [dem |-> "other.wav", ours |-> "music", ok |-> c.wantMusic]>>,
              LAMBDA m : m.ok)

\* runDemucs once demucs ran and its output directories were found: the
\* wanted stems present in the output are transcoded in order, up to and
\* including the one numbered failAt (0: none fails)
runDemucs(c, present, failAt) ==
    LET todo == SelectSeq(DemucsMappings(c), LAMBDA m : m.ours \in present)
        all  == [i \in 1..Len(todo) |->
                   [name |-> todo[i].ours, filter |-> <<>>, ext |-> c.outFormat,
                    codec |-> Codec(c.outFormat)]]
    IN  [jobs |-> SubSeq(all, 1, IF failAt = 0 THEN Len(all) ELSE failAt),
         err |-> failAt # 0]

StemFail == stemPc' = "done" /\ stemExit' = Some(1)

\* split main up to the engine switch: parseFlags, the input argument, os.Stat
SplitMain ==
    /\ stemPc = "start"
    /\ stemCfg' = Some(parseFlags(argv))
    /\ IF ~argv.input \/ ~argv.stat
       THEN StemFail
       ELSE stemPc' = "engine" /\ UNCHANGED stemExit
    /\ UNCHANGED <<argv, jobs>>
    /\ UNCHANGED analizeVars

\* split main, default engine: mustHave(ffmpeg), runFfmpegPseudoStems
SplitFfmpeg ==
    /\ stemPc = "engine"
    /\ Deref(stemCfg).engine # "demucs"
    /\ IF ~argv.ffmpegFound
       THEN StemFail /\ UNCHANGED jobs
       ELSE \E failAt \in 0..Len(StemJobs(Deref(stemCfg))) :
              LET r == runFfmpegPseudoStems(Deref(stemCfg), failAt)
              IN  /\ jobs' = r.jobs
                  /\ stemPc' = "done"
                  /\ stemExit' = Some(IF r.err THEN 1 ELSE 0)
    /\ UNCHANGED <<argv, stemCfg>>
    /\ UNCHANGED analizeVars

\* split main, engine demucs: mustHave(demucs), the demucs run and the
\* lookup of its output directories (ran), then the transcodes
SplitDemucs ==
    /\ stemPc = "engine"
    /\ Deref(stemCfg).engine = "demucs"
    /\ IF ~argv.demucsFound
       THEN StemFail /\ UNCHANGED jobs
       ELSE \E ran \in BOOLEAN :
              IF ~ran
              THEN StemFail /\ UNCHANGED jobs
              ELSE \E present \in SUBSET {"bass", "drums", "vocal", "music"} :
                     \E failAt \in 0..Cardinality(present) :
                        /\ failAt <= Len(runDemucs(Deref(stemCfg), present, 0).jobs)
                        /\ LET r == runDemucs(Deref(stemCfg), present, failAt)
                           IN  /\ jobs' = r.jobs
                               /\ stemPc' = "done"
                               /\ stemExit' = Some(IF r.err THEN 1 ELSE 0)
    /\ UNCHANGED <<argv, stemCfg>>
    /\ UNCHANGED analizeVars

NextStems ==
    \/ SplitMain
    \/ SplitFfmpeg
    \/ SplitDemucs

----------------------------------------------------------------------------
(* Inputs: command lines and what the tools print *)

\* number of configured bands (-bands) in the model
MaxBands == 2

\* the default -bands list
DefaultBands ==
    <<[Lo |-> 20, Hi |-> 60], [Lo |-> 60, Hi |-> 120], [Lo |-> 120, Hi |-> 250],
      [Lo |-> 250, Hi |-> 500], [Lo |-> 500, Hi |-> 2000],
      [Lo |-> 2000, Hi |-> 5000], [Lo |-> 5000, Hi |-> 10000],
      [Lo |-> 10000, Hi |-> 20000]>>

\* defaultConfig with the first MaxBands bands and -bpm-engine aubio
BaseCfg ==
    [Report |-> "txt", UseEBUR128 |-> TRUE, UseBands |-> TRUE,
     BPMEngine |-> "aubio", Bands |-> SubSeq(DefaultBands, 1, MaxBands)]

\* the configurations reachable with -no-ebur128, -no-bands, -bpm-engine
Cfgs ==
    {[BaseCfg EXCEPT !.UseEBUR128 = u, !.UseBands = b, !.BPMEngine = g] :
        u \in BOOLEAN, b \in BOOLEAN, g \in {"aubio", "none"}}

AllTools == [ffmpeg |-> TRUE, ffprobe |-> TRUE, aubio |-> TRUE]

BandOk == [max |-> Some(-6), mean |-> Some(-12)]

BandFail == [max |-> None, mean |-> None]

VdOk == [max |-> Some(-3), mean |-> Some(-9)]

VdFail == [max |-> None, mean |-> Some(-9)]

AstOk ==
    [k \in AstatsKeys |->
        CASE k = "dc_offset" -> Some(1)
          [] k = "zero_crossings_rate" -> Some(4)
          [] k = "noise_floor" -> Some(-60)
          [] k = "number_of_clipped_samples" -> Some(0)]

AstFail == [k \in AstatsKeys |-> None]

EburOk == [I |-> Some(-14), R |-> Some(7), TP |-> Some(-15)]

EburFail == [I |-> None, R |-> Some(7), TP |-> Some(-15)]

SpectralOk ==
    [centroid |-> Some(1000), rolloff |-> Some(5000), flat |-> Some(3),
     spread |-> None, skew |-> None, kurt |-> None]

StereoOk == [vals |-> <<-12, -20>>, corr |-> Some(8)]

SilenceOk == <<[Start |-> 2, End |-> 4], [Start |-> 10, End |-> 11]>>

KeyOk == [letter |-> Some("C"), scale |-> Some("major"), conf |-> Some(8)]

KeyNothing == [letter |-> None, scale |-> None, conf |-> None]

Geometry == [Duration |-> 20, SampleRate |-> 2, Channels |-> 2]

\* a file every tool handles
BaseFile ==
    [stat |-> TRUE, ffprobe |-> Some(Geometry), volumedetect |-> VdOk,
     astats |-> AstOk, ebur128 |-> EburOk, spectral |-> SpectralOk,
     stereo |-> StereoOk, band |-> [i \in 1..MaxBands |-> BandOk],
     silence |-> SilenceOk, tempo |-> [failed |-> FALSE, vals |-> <<120>>],
     onset |-> 5, pitch |-> <<440>>, key |-> KeyOk]

\* a path that does not exist, and a file ffprobe rejects
MissingFile == [BaseFile EXCEPT !.stat = FALSE]

BrokenFile == [BaseFile EXCEPT !.ffprobe = None]

\* a file with no loudness, no tempo and one long silence
PlainFile ==
    [BaseFile EXCEPT !.ebur128 = EburFail,
                     !.tempo = [failed |-> TRUE, vals |-> <<>>],
                     !.silence = <<[Start |-> 5, End |-> 8]>>,
                     !.volumedetect = [max |-> Some(0), mean |-> Some(-6)]]

Scenario(s, m, c, sp, tr, fs) ==
    [sys |-> s, mode |-> m, cfg |-> c, splitSec |-> sp, trimSec |-> tr,
     files |-> fs]

\* command lines that exercise every branch of main
CoverScenarios ==
    {Scenario(s, m, BaseCfg, 0, 0, fs) :
        s \in [ffmpeg : BOOLEAN, ffprobe : BOOLEAN, aubio : BOOLEAN],
        m \in {"full", "compare", "other"},
        fs \in {<<>>, <<BaseFile>>, <<BaseFile, PlainFile>>}}
    \cup
    {Scenario(AllTools, "", BaseCfg, 0, 0, <<>>)}
    \cup
    {Scenario(AllTools, "compare", c, 0, 0, <<fa, fb>>) :
        c \in {BaseCfg, [BaseCfg EXCEPT !.BPMEngine = "none"]},
        fa \in {MissingFile, BrokenFile, BaseFile, PlainFile},
        fb \in {MissingFile, BrokenFile, BaseFile, PlainFile}}
    \cup
    {Scenario(AllTools, "full", BaseCfg, sp, tr, <<f>>) :
        sp \in 0..2, tr \in 0..1,
        f \in {MissingFile, BrokenFile, BaseFile, PlainFile}}

\* files for which each optional probe independently succeeds or fails
FailureFiles ==
    [stat : {TRUE}, ffprobe : {Some(Geometry)},
     volumedetect : {VdOk, VdFail}, astats : {AstOk, AstFail},
     ebur128 : {EburOk, EburFail}, spectral : {SpectralOk},
     stereo : {StereoOk}, band : [1..MaxBands -> {BandOk, BandFail}],
     silence : {<<>>, SilenceOk},
     tempo : {[failed |-> TRUE, vals |-> <<>>], [failed |-> FALSE, vals |-> <<>>],
              [failed |-> FALSE, vals |-> <<120>>]},
     onset : {5}, pitch : {<<>>, <<440>>}, key : {KeyNothing, KeyOk}]

FailureScenarios ==
    {Scenario([AllTools EXCEPT !.aubio = au], "full", c, 0, 0, <<f>>) :
        au \in BOOLEAN, c \in Cfgs, f \in FailureFiles}

\* split with no flag and one existing input file
DefaultArgv ==
    [engine |-> "ffmpeg", outFormat |-> "wav", preset |-> "hard",
     stems |-> <<"bass", "drums", "music", "vocal">>,
     cut |-> [n \in CutoffFlags |-> None],
     autoGain |-> TRUE, preGainDB |-> -4, gainBassDB |-> 5, vocalMid |-> 95,
     input |-> TRUE, stat |-> TRUE, ffmpegFound |-> TRUE, demucsFound |-> TRUE]

StemsFrom(S) ==
    \E av \in S :
        /\ argv = av
        /\ stemCfg = None
        /\ jobs = <<>>
        /\ stemPc = "start"
        /\ stemExit = None

AnalizeFrom(S) ==
    \E sc \in S :
        /\ sys = sc.sys
        /\ mode = sc.mode
        /\ cfg = sc.cfg
        /\ splitSec = sc.splitSec
        /\ trimSec = sc.trimSec
        /\ files = sc.files
        /\ pc = "start"
        /\ a1 = None
        /\ a2 = None
        /\ calls = <<>>
        /\ outFile = None
        /\ cuts = <<>>
        /\ outs = <<>>
        /\ exit = None

\* analize started on one of the command lines of S; split not started
InitFrom(S) == AnalizeFrom(S) /\ StemsFrom({DefaultArgv})

Init == InitFrom(CoverScenarios \cup FailureScenarios)

Spec == Init /\ [][Next]_vars

----------------------------------------------------------------------------
(* Further input sets, one specification each *)

\* what astats prints: each Overall line present or not
AstatsOuts ==
    {[k \in AstatsKeys |->
        CASE k = "dc_offset" -> dc
          [] k = "zero_crossings_rate" -> zx
          [] k = "noise_floor" -> nf
          [] k = "number_of_clipped_samples" -> clip] :
        dc \in {None, Some(0), Some(1)}, zx \in {None, Some(4)},
        nf \in {None, Some(-60)}, clip \in {None, Some(0), Some(100)}}

\* level values: geometry, volumedetect, astats and mid/side outputs
LevelFiles ==
    {[BaseFile EXCEPT !.ffprobe = Some(g), !.volumedetect = v, !.astats = m,
                      !.stereo = [vals |-> sv, corr |-> Some(8)]] :
        g \in [Duration : {0, 5, 20}, SampleRate : {0, 2}, Channels : {0, 2}],
        v \in [max : {None, Some(0), Some(-3)}, mean : {None, Some(0), Some(-9)}],
        m \in AstatsOuts,
        sv \in {<<>>, <<0, 0>>, <<-12, -20>>, <<-20, -22, -10, -12>>}}

LevelScenarios ==
    {Scenario(AllTools, "full", BaseCfg, 0, 0, <<f>>) : f \in LevelFiles}

InitLevels == InitFrom(CoverScenarios \cup LevelScenarios)

SpecLevels == InitLevels /\ [][Next]_vars

\* values around the thresholds of the four note rules
NoteFiles ==
    {[BaseFile EXCEPT !.ffprobe = Some(g),
                      !.astats = [AstOk EXCEPT !["number_of_clipped_samples"] = clip],
                      !.ebur128 = l,
                      !.spectral = [SpectralOk EXCEPT !.flat = fl],
                      !.stereo = [StereoOk EXCEPT !.corr = co]] :
        g \in {Geometry, [Geometry EXCEPT !.Duration = 0]},
        clip \in {None, Some(0), Some(100)},
        l \in [I : {None, Some(-14)}, R : {None, Some(7)},
               TP : {None, Some(-15), Some(-10), Some(-5)}],
        fl \in {None, Some(5), Some(7)},
        co \in {None, Some(1), Some(2)}}

NoteScenarios ==
    {Scenario(AllTools, "full", c, 0, 0, <<f>>) :
        c \in {BaseCfg, [BaseCfg EXCEPT !.UseEBUR128 = FALSE]}, f \in NoteFiles}

InitNotes == InitFrom(CoverScenarios \cup NoteScenarios)

SpecNotes == InitNotes /\ [][Next]_vars

\* longest tempo series the tempo tool prints in the model
MaxSeries == 3

\* tempo series in every order the tool can print them
TempoFiles ==
    {[BaseFile EXCEPT !.ffprobe = Some([Geometry EXCEPT !.Duration = d]),
                      !.tempo = [failed |-> FALSE, vals |-> vs],
                      !.onset = n] :
        d \in {0, 20}, n \in {0, 5},
        vs \in UNION {[1..k -> {60, 120, 180}] : k \in 0..MaxSeries}}

TempoScenarios ==
    {Scenario(AllTools, "full", BaseCfg, 0, 0, <<f>>) : f \in TempoFiles}

InitTempo == InitFrom(CoverScenarios \cup TempoScenarios)

SpecTempo == InitTempo /\ [][Next]_vars

\* longest pitch series the pitch tool prints in the model
MaxPitch == 2

\* the numbers the pitch tool prints (Hz; 0 is an unvoiced frame)
PitchHz == {0, 4, 7, 8, 220, 262, 440}

\* what the key tool prints: each token present or not
KeyOuts ==
    [letter : {None, Some("C")}, scale : {None, Some("major")},
     conf : {None, Some(8)}]

\* pitch series in every order, with every key output
PitchFiles ==
    {[BaseFile EXCEPT !.pitch = ps, !.key = k] :
        ps \in UNION {[1..n -> PitchHz] : n \in 0..MaxPitch}, k \in KeyOuts}

PitchScenarios ==
    {Scenario([AllTools EXCEPT !.aubio = au], "full", BaseCfg, 0, 0, <<f>>) :
        au \in BOOLEAN, f \in PitchFiles}

InitPitch == InitFrom(CoverScenarios \cup PitchScenarios)

SpecPitch == InitPitch /\ [][Next]_vars

\* most silence spans silencedetect reports in the model
MaxSpans == 2

\* the instants at which silences start and end
SplitTimes == {0, 4, 8, 20, 21, 40}

\* what silencedetect prints: up to MaxSpans spans, in time order
SilenceOuts ==
    LET Spans == {[Start |-> s, End |-> e] : s, e \in SplitTimes}
    IN  {sp \in UNION {[1..n -> Spans] : n \in 0..MaxSpans} :
            /\ \A i \in 1..Len(sp) : sp[i].Start < sp[i].End
            /\ \A i \in 1..(Len(sp) - 1) : sp[i].End <= sp[i + 1].Start}

\* durations and silences for the split
SplitFiles ==
    {[BaseFile EXCEPT !.ffprobe = Some([Geometry EXCEPT !.Duration = d]),
                      !.silence = sp] :
        d \in {0, 21, 40}, sp \in SilenceOuts}

\* -split-on-silence and -trim-ends values
SplitScenarios ==
    {Scenario(AllTools, "full", BaseCfg, sp, tr, <<f>>) :
        sp \in {0, 1, 2, 4}, tr \in {-1, 0, 1, 3}, f \in SplitFiles}

InitSplit == InitFrom(CoverScenarios \cup SplitScenarios)

SpecSplit == InitSplit /\ [][Next]_vars

\* the two sides of a comparison: level, loudness, mid/side and tempo
\* outputs and the duration vary independently on each side
CompareFiles ==
    {[BaseFile EXCEPT !.ffprobe = Some([Geometry EXCEPT !.Duration = d]),
                      !.volumedetect = v, !.ebur128 = l,
                      !.stereo = [vals |-> sv, corr |-> Some(8)],
                      !.tempo = t] :
        d \in {20, 40},
        v \in {VdOk, VdFail, [max |-> Some(-1), mean |-> Some(-7)]},
        l \in {EburOk, EburFail, [I |-> Some(-10), R |-> None, TP |-> None]},
        sv \in {<<>>, <<-12, -20>>},
        t \in {[failed |-> TRUE, vals |-> <<>>],
               [failed |-> FALSE, vals |-> <<120>>],
               [failed |-> FALSE, vals |-> <<90, 60>>]}}

CompareScenarios ==
    {Scenario(AllTools, "compare", [BaseCfg EXCEPT !.Report = r], 0, 0,
              <<fa, fb>>) :
        r \in {"txt", "md", "json"}, fa \in CompareFiles, fb \in CompareFiles}

InitCompare == InitFrom(CoverScenarios \cup CompareScenarios)

SpecCompare == InitCompare /\ [][Next]_vars

\* what the spectral tool prints: each of the six values present or not
SpectralOuts ==
    [centroid : {None, Some(1000)}, rolloff : {None, Some(5000)},
     flat : {None, Some(3)}, spread : {None, Some(2)}, skew : {None, Some(1)},
     kurt : {None, Some(4)}]

\* files for the reports: spectral, clip, duration and key outputs
RenderLevelFiles ==
    {[BaseFile EXCEPT !.ffprobe = Some([Geometry EXCEPT !.Duration = d]),
                      !.astats = [AstOk EXCEPT !["number_of_clipped_samples"] = clip],
                      !.spectral = sp, !.key = k] :
        d \in {0, 20}, clip \in {None, Some(100)}, sp \in SpectralOuts,
        k \in {KeyNothing, KeyOk, [KeyNothing EXCEPT !.conf = Some(8)]}}

\* files for the reports: loudness, correlation, bands, silence, tempo, pitch
RenderSectionFiles ==
    {[BaseFile EXCEPT !.ebur128 = l, !.stereo = [StereoOk EXCEPT !.corr = co],
                      !.band = b, !.silence = sil, !.tempo = t, !.pitch = ps] :
        l \in {EburOk, EburFail, [I |-> Some(-10), R |-> None, TP |-> None]},
        co \in {None, Some(8)}, b \in [1..MaxBands -> {BandOk, BandFail}],
        sil \in {<<>>, SilenceOk},
        t \in {[failed |-> TRUE, vals |-> <<>>], [failed |-> FALSE, vals |-> <<120>>]},
        ps \in {<<>>, <<440>>}}

\* full runs writing a txt, md or json report
RenderScenarios ==
    {Scenario(AllTools, "full", [BaseCfg EXCEPT !.Report = r], 0, 0, <<f>>) :
        r \in {"txt", "md", "json"}, f \in RenderLevelFiles}
    \cup
    {Scenario([AllTools EXCEPT !.aubio = au], "full",
              [BaseCfg EXCEPT !.Report = r, !.UseBands = ub], 0, 0, <<f>>) :
        au \in BOOLEAN, r \in {"txt", "md"}, ub \in BOOLEAN,
        f \in RenderSectionFiles}

InitRender == InitFrom(CoverScenarios \cup RenderScenarios)

SpecRender == InitRender /\ [][Next]_vars

----------------------------------------------------------------------------
(* Properties *)

\* C1: when os.Stat or the mandatory ffprobe probe fails for an input,
\* analyzeFile returns no Analysis for it and runs no optional probe, and
\* main writes no output file: no report in full mode, and no diff in
\* compare mode when either of the two analyses fails; the exit status is 1.
C1_NoOutputWithoutProbe ==
    LET Unreadable(f) == ~f.stat \/ f.ffprobe = None
        OptionalCalls(i) == {j \in 1..Len(calls) :
                                calls[j][1] = i /\ calls[j][2] # "ffprobe"}
    IN  /\ \A i \in 1..Len(files) :
              Unreadable(files[i]) =>
                 /\ (i = 1 => a1 = None)
                 /\ (i = 2 => a2 = None)
                 /\ OptionalCalls(i) = {}
        /\ (mode = "full" /\ Len(files) >= 1 /\ Unreadable(files[1])) =>
              /\ outFile = None
              /\ (pc = "done" => exit = Some(1))
        /\ (/\ mode = "compare"
            /\ Len(files) >= 2
            /\ (Unreadable(files[1]) \/ Unreadable(files[2]))) =>
              /\ outFile = None
              /\ (pc = "done" => exit = Some(1))

\* compare ended: A was analysed, B could not be probed, nothing was written
C1_Witness ==
    /\ pc = "done"
    /\ mode = "compare"
    /\ Len(files) = 2
    /\ files[1].stat /\ files[1].ffprobe # None
    /\ files[2].stat /\ files[2].ffprobe = None
    /\ a1 # None
    /\ a2 = None
    /\ outFile = None
    /\ exit = Some(1)

\* C2: once the mandatory probe succeeded, analyzeFile returns an Analysis
\* whatever the optional probes do, and every enabled optional probe (level,
\* extended statistics, loudness, spectral, stereo, each band, silence,
\* tempo, onset, pitch, key) is attempted whatever the others returned.
C2_OptionalProbesIndependent ==
    LET Called(i, p) == \E j \in 1..Len(calls) : calls[j] = <<i, p>>
        BandCount(i) == Cardinality({j \in 1..Len(calls) : calls[j] = <<i, "band">>})
        Optional ==
            {"volumedetect", "astats", "spectral", "stereo", "silence",
             "pitch", "key"}
            \cup (IF cfg.UseEBUR128 THEN {"ebur128"} ELSE {})
            \cup (IF cfg.BPMEngine = "aubio" THEN {"tempo", "onset"} ELSE {})
    IN  \A i \in 1..Len(files) :
            (Called(i, "ffprobe") /\ files[i].stat /\ files[i].ffprobe # None) =>
               /\ (i = 1 => a1 # None)
               /\ (i = 2 => a2 # None)
               /\ \A p \in Optional : Called(i, p)
               /\ (cfg.UseBands => BandCount(i) = Len(cfg.Bands))

\* C7: Analysis.Bands is the configured band list restricted, in order, to
\* the bands whose probe succeeded, each with the values that probe
\* returned; it is empty when bands are disabled.
C7_BandsAreSuccessfulSubsequence ==
    LET Ok(f) == {i \in 1..Len(cfg.Bands) :
                     f.band[i].max # None /\ f.band[i].mean # None}
        Good(a, f) ==
            IF ~cfg.UseBands THEN Len(a.Bands) = 0
            ELSE /\ Len(a.Bands) = Cardinality(Ok(f))
                 /\ Len(a.Bands) <= Len(cfg.Bands)
                 /\ \E pos \in [1..Len(a.Bands) -> 1..Len(cfg.Bands)] :
                       /\ \A j, k \in 1..Len(a.Bands) : j < k => pos[j] < pos[k]
                       /\ {pos[j] : j \in 1..Len(a.Bands)} = Ok(f)
                       /\ \A j \in 1..Len(a.Bands) :
                             /\ a.Bands[j].Band = cfg.Bands[pos[j]]
                             /\ a.Bands[j].PeakDB = Deref(f.band[pos[j]].max)
                             /\ a.Bands[j].RMSDB = Deref(f.band[pos[j]].mean)
    IN  /\ a1 # None => Good(Deref(a1), files[1])
        /\ a2 # None => Good(Deref(a2), files[2])

\* the first band failed and the second succeeded: one BandStat, the second's
C7_Witness ==
    /\ a1 # None
    /\ cfg.UseBands
    /\ files[1].band[1].max = None
    /\ files[1].band[2].max # None
    /\ Len(Deref(a1).Bands) >= 1
    /\ Len(Deref(a1).Bands) < Len(cfg.Bands)
    /\ Deref(a1).Bands[1].Band = cfg.Bands[2]

\* C3: a failed optional probe leaves its fields absent and nothing is
\* derived from a placeholder: the Level of an Analysis whose volumedetect
\* probe failed differs from the Level reported had the probe measured
\* peak 0 / RMS 0, and likewise for a failed astats probe and measured
\* zeros of DC offset, zero-crossing rate and noise floor.
C3_FailedProbeDistinctFromZero ==
    LET ZeroVd == [max |-> Some(0), mean |-> Some(0)]
        ZeroAst == [k \in AstatsKeys |->
                      IF k = "number_of_clipped_samples" THEN None ELSE Some(0)]
        Good(a, f) ==
            /\ ffmpegVolumedetect(f).err =>
                  a.Level # Deref(analyzeFile(cfg, sys,
                                  [f EXCEPT !.volumedetect = ZeroVd]).a).Level
            /\ ffmpegAstatsOverall(f).err =>
                  /\ a.Level.ClipSamples = None
                  /\ a.Level.ClipPercent = None
                  /\ a.Level # Deref(analyzeFile(cfg, sys,
                                     [f EXCEPT !.astats = ZeroAst]).a).Level
    IN  /\ a1 # None => Good(Deref(a1), files[1])
        /\ a2 # None => Good(Deref(a2), files[2])

\* C4: in every Analysis crest = peak - RMS, headroom = 0 - peak and
\* side/mid = side - mid, on the peak/RMS pair volumedetect returned.
C4_DerivedLevelIdentities ==
    LET Good(a, f) ==
            /\ a.Level.CrestDB = a.Level.PeakDB - a.Level.RMSDB
            /\ a.Level.HeadroomDB = 0 - a.Level.PeakDB
            /\ a.Stereo.SideMidRatioDB = a.Stereo.SideRMS - a.Stereo.MidRMS
            /\ (f.volumedetect.max # None /\ f.volumedetect.mean # None) =>
                  /\ a.Level.PeakDB = Deref(f.volumedetect.max)
                  /\ a.Level.RMSDB = Deref(f.volumedetect.mean)
    IN  /\ a1 # None => Good(Deref(a1), files[1])
        /\ a2 # None => Good(Deref(a2), files[2])

\* peak -3, RMS -9: crest 6, headroom 3; four RMS matches: side/mid -10
C4_Witness ==
    /\ a1 # None
    /\ Deref(a1).Level.PeakDB = -3
    /\ Deref(a1).Level.RMSDB = -9
    /\ Deref(a1).Level.CrestDB = 6
    /\ Deref(a1).Level.HeadroomDB = 3
    /\ Len(files[1].stereo.vals) = 4
    /\ Deref(a1).Stereo.SideMidRatioDB = -10

\* C5: ClipSamples is present iff astats reported the count; ClipPercent is
\* present iff the count was reported and duration, sample rate and channel
\* count are all > 0, and then equals 100*count/(duration*rate*channels).
C5_ClipPercent ==
    LET Good(a, f) ==
            LET reported == f.astats["number_of_clipped_samples"] # None
                g == Deref(f.ffprobe)
                geometry == g.Duration > 0 /\ g.SampleRate > 0 /\ g.Channels > 0
            IN  /\ a.Level.ClipSamples = f.astats["number_of_clipped_samples"]
                /\ (a.Level.ClipPercent # None) <=> (reported /\ geometry)
                /\ a.Level.ClipPercent # None =>
                      FracEq(Deref(a.Level.ClipPercent),
                             Frac(100 * Deref(a.Level.ClipSamples),
                                  g.Duration * g.SampleRate * g.Channels))
    IN  /\ a1 # None => Good(Deref(a1), files[1])
        /\ a2 # None => Good(Deref(a2), files[2])

\* 100 clipped samples of 5 * 2 * 2 = 20: 500 percent
C5_Witness ==
    /\ a1 # None
    /\ Deref(files[1].ffprobe) = [Duration |-> 5, SampleRate |-> 2, Channels |-> 2]
    /\ Deref(a1).Level.ClipSamples = Some(100)
    /\ Deref(a1).Level.ClipPercent # None
    /\ FracEq(Deref(Deref(a1).Level.ClipPercent), Frac(500, 1))

\* C9: a clipping note is generated only when the clip percentage it prints
\* is present in the Analysis; it never prints a missing percentage.
C9_ClipNoteHasPercent ==
    LET Good(a) ==
            \A i \in 1..Len(a.Notes) :
                a.Notes[i].rule = "clipping" =>
                   /\ a.Level.ClipSamples # None
                   /\ Deref(a.Level.ClipSamples) > 0
                   /\ a.Level.ClipPercent # None
                   /\ ~IsNaN(a.Notes[i].value)
    IN  /\ a1 # None => Good(Deref(a1))
        /\ a2 # None => Good(Deref(a2))

\* C6: Loudness is present iff the loudness probe is enabled and succeeds;
\* Level.TruePeakDBTP is present iff, moreover, the probe exposed a true
\* peak, and then equals Loudness.TruePeak.
C6_TruePeakBackfill ==
    LET Good(a, f) ==
            LET ok == cfg.UseEBUR128 /\ f.ebur128.I # None
            IN  /\ (a.Loudness # None) <=> ok
                /\ (a.Level.TruePeakDBTP # None) <=> (ok /\ f.ebur128.TP # None)
                /\ a.Level.TruePeakDBTP # None =>
                      /\ a.Level.TruePeakDBTP = Deref(a.Loudness).TruePeak
                      /\ a.Level.TruePeakDBTP = f.ebur128.TP
    IN  /\ a1 # None => Good(Deref(a1), files[1])
        /\ a2 # None => Good(Deref(a2), files[2])

\* loudness measured with a true peak of -0.5 dBTP, back-filled into Level
C6_Witness ==
    /\ a1 # None
    /\ cfg.UseEBUR128
    /\ Deref(a1).Loudness # None
    /\ Deref(Deref(a1).Loudness).TruePeak = Some(-5)
    /\ Deref(a1).Level.TruePeakDBTP = Some(-5)

\* C8: Notes is the fixed rule order clipping, true-peak, flatness,
\* correlation restricted to the rules that fire: clip count present and
\* > 0, true peak present and > -1.0, flatness present and > 0.5,
\* correlation present and < 0.2 (strict); count 100, true peak -0.5,
\* flatness 0.7, correlation 0.1 give the four notes in that order.
C8_NotesInRuleOrder ==
    LET Good(a) ==
            LET fires ==
                    (IF a.Level.ClipSamples # None /\ Deref(a.Level.ClipSamples) > 0
                     THEN {"clipping"} ELSE {})
                    \cup (IF /\ a.Level.TruePeakDBTP # None
                             /\ Deref(a.Level.TruePeakDBTP) > -10
                          THEN {"truepeak"} ELSE {})
                    \cup (IF a.Spectral.Flatness # None /\ Deref(a.Spectral.Flatness) > 5
                          THEN {"flatness"} ELSE {})
                    \cup (IF /\ a.Stereo.Correlation # None
                             /\ Deref(a.Stereo.Correlation) < 2
                          THEN {"correlation"} ELSE {})
                rules == [i \in 1..Len(a.Notes) |-> a.Notes[i].rule]
                order == <<"clipping", "truepeak", "flatness", "correlation">>
            IN  /\ Len(rules) = Cardinality(fires)
                /\ rules = SelectSeq(order, LAMBDA r : r \in fires)
                /\ (/\ a.Level.ClipSamples = Some(100)
                    /\ a.Level.TruePeakDBTP = Some(-5)
                    /\ a.Spectral.Flatness = Some(7)
                    /\ a.Stereo.Correlation = Some(1)) => rules = order
    IN  /\ a1 # None => Good(Deref(a1))
        /\ a2 # None => Good(Deref(a2))

\* the four-note example of the specification
C8_Witness ==
    /\ a1 # None
    /\ Deref(a1).Level.ClipSamples = Some(100)
    /\ Deref(a1).Level.TruePeakDBTP = Some(-5)
    /\ Deref(a1).Spectral.Flatness = Some(7)
    /\ Deref(a1).Stereo.Correlation = Some(1)
    /\ Len(Deref(a1).Notes) = 4
    /\ Deref(a1).Notes[1].rule = "clipping"
    /\ Deref(a1).Notes[4].rule = "correlation"

\* C10: for every non-empty tempo series, in whatever order it was printed,
\* BPMMedian is the element at index len/2 of the series sorted ascending,
\* so at least half of the estimates are <= it and at least half are >= it.
C10_MedianOfSortedSeries ==
    LET Good(a, f) ==
            a.Tempo # None =>
               LET series == f.tempo.vals
                   med    == Deref(Deref(a.Tempo).BPMMedian)
                   n      == Len(series)
               IN  /\ med = Float64s(series)[(n \div 2) + 1]
                   /\ 2 * Cardinality({i \in 1..n : series[i] <= med}) >= n
                   /\ 2 * Cardinality({i \in 1..n : series[i] >= med}) >= n
    IN  /\ a1 # None => Good(Deref(a1), files[1])
        /\ a2 # None => Good(Deref(a2), files[2])

\* C11: Analysis.Tempo is present iff the BPM engine is aubio and the tempo
\* probe returned at least one estimate; with an empty series or a disabled
\* engine there is no TempoStats and the onset count appears nowhere in the
\* Analysis; a series of length 1 gives median = mean = that value and
\* stddev = 0.
C11_TempoPresence ==
    LET Good(a, f) ==
            LET series == f.tempo.vals
                other  == [f EXCEPT !.onset = f.onset + 1]
            IN  /\ a.Tempo # None <=>
                      /\ cfg.BPMEngine = "aubio"
                      /\ ~f.tempo.failed
                      /\ Len(series) >= 1
                /\ a.Tempo = None => Some(a) = analyzeFile(cfg, sys, other).a
                /\ (a.Tempo # None /\ Len(series) = 1) =>
                      /\ Deref(a.Tempo).BPMMedian = Some(series[1])
                      /\ Deref(a.Tempo).BPMMean # None
                      /\ FracEq(Deref(Deref(a.Tempo).BPMMean), Frac(series[1], 1))
                      /\ Deref(a.Tempo).BPMStd # None
                      /\ FracEq(Deref(Deref(a.Tempo).BPMStd), Frac(0, 1))
    IN  /\ a1 # None => Good(Deref(a1), files[1])
        /\ a2 # None => Good(Deref(a2), files[2])

\* a one-estimate series analysed with the aubio engine
C11_Witness ==
    /\ a1 # None
    /\ cfg.BPMEngine = "aubio"
    /\ files[1].tempo.vals = <<60>>
    /\ Deref(a1).Tempo # None
    /\ Deref(Deref(a1).Tempo).BPMMedian = Some(60)
    /\ Deref(Deref(a1).Tempo).BPMStd = Some(Frac(0, 1))

\* C12: for every MIDI number m a positive pitch rounds to, negative ones
\* included, the note is names[m mod 12] (non-negative modulo) followed by
\* the octave floor(m/12) - 1, the lookup staying inside the 12 names;
\* 69 gives A4 and 60 gives C4.
C12_NoteNameFloorOctave ==
    LET Good(a) ==
            (a.Pitch # None /\ Deref(a.Pitch).Note # None) =>
               LET m    == Round100(Deref(Deref(a.Pitch).MIDIMedian))
                   note == Deref(Deref(a.Pitch).Note)
               IN  /\ ~note.panic
                   /\ note.name = NoteNames[(m % 12) + 1]
                   /\ note.oct = (m \div 12) - 1
                   /\ m = 69 => note.name = "A" /\ note.oct = 4
                   /\ m = 60 => note.name = "C" /\ note.oct = 4
    IN  /\ a1 # None => Good(Deref(a1))
        /\ a2 # None => Good(Deref(a2))

\* C13: when the key tool runs and prints no key, scale or confidence token,
\* Analysis.Key is nil rather than a KeyInfo with empty fields; when the
\* pitch tool yields no positive value, the Analysis carries no pitch value.
C13_NoTokenNoKey ==
    LET Good(a, f) ==
            /\ (sys.aubio /\ f.key = KeyNothing) => a.Key = None
            /\ (sys.aubio /\ SelectSeq(f.pitch, LAMBDA v : v > 0) = <<>>) =>
                  \/ a.Pitch = None
                  \/ \A k \in DOMAIN Deref(a.Pitch) : Deref(a.Pitch)[k] = None
    IN  /\ a1 # None => Good(Deref(a1), files[1])
        /\ a2 # None => Good(Deref(a2), files[2])

\* C14: every optional section of an Analysis (Loudness, Tempo, Pitch, Key)
\* is absent or fully populated: a present Tempo has its three BPM values
\* and its onset rate, a present Key has key, scale and confidence, a
\* present Pitch has all six fields, a present Loudness has a measured
\* range and true peak.
C14_SectionsAbsentOrFull ==
    LET Full(p) == \A k \in DOMAIN Deref(p) : Deref(p)[k] # None
        Good(a, f) ==
            /\ a.Tempo # None =>
                  /\ Deref(a.Tempo).BPMMedian # None
                  /\ Deref(a.Tempo).BPMMean # None
                  /\ Deref(a.Tempo).BPMStd # None
                  /\ Deref(a.Tempo).OnsetPerMin # None
            /\ a.Key # None => Full(a.Key)
            /\ a.Pitch # None => Full(a.Pitch)
            /\ a.Loudness # None =>
                  /\ f.ebur128.I # None
                  /\ f.ebur128.R # None
                  /\ Deref(a.Loudness).TruePeak # None
    IN  /\ a1 # None => Good(Deref(a1), files[1])
        /\ a2 # None => Good(Deref(a2), files[2])

\* C15: SilenceTotal is the sum of (End - Start) over the detected spans and
\* SilenceRatio is total / duration; the ratio is present only when
\* duration > 0 (duration 0 with spans: total present, ratio absent); with
\* no span neither is present.
C15_SilenceTotalAndRatio ==
    LET Good(a) ==
            LET sil == a.Silence
                sum == SumSeq([i \in 1..Len(sil) |-> sil[i].End])
                       - SumSeq([i \in 1..Len(sil) |-> sil[i].Start])
            IN  /\ sil = <<>> => a.SilenceTotal = None /\ a.SilenceRatio = None
                /\ sil # <<>> =>
                      /\ a.SilenceTotal = Some(sum)
                      /\ a.SilenceRatio # None <=> a.Probe.Duration > 0
                      /\ a.SilenceRatio # None =>
                            FracEq(Deref(a.SilenceRatio),
                                   Frac(sum, a.Probe.Duration))
    IN  /\ a1 # None => Good(Deref(a1))
        /\ a2 # None => Good(Deref(a2))

\* two spans in a file whose duration is 0: a total without a ratio
C15_Witness ==
    /\ a1 # None
    /\ Deref(a1).Probe.Duration = 0
    /\ Len(Deref(a1).Silence) = 2
    /\ Deref(a1).SilenceTotal = Some(5)
    /\ Deref(a1).SilenceRatio = None

C17_ExampleThreeSegments ==
    (/\ mode = "full" /\ pc = "done" /\ exit = Some(0) /\ a1 # None
     /\ Deref(a1).Silence = <<[Start |-> 4, End |-> 8], [Start |-> 20, End |-> 21]>>
     /\ Deref(a1).Probe.Duration = 40
     /\ splitSec = 2) =>
       /\ trimSec = 0 =>
             cuts = <<[part |-> 1, range |-> [start |-> 0, end |-> 4]],
                      [part |-> 2, range |-> [start |-> 8, end |-> 20]],
                      [part |-> 3, range |-> [start |-> 21, end |-> 40]]>>
       /\ trimSec = 1 =>
             cuts = <<[part |-> 1, range |-> [start |-> 1, end |-> 3]],
                      [part |-> 2, range |-> [start |-> 9, end |-> 19]],
                      [part |-> 3, range |-> [start |-> 22, end |-> 39]]>>

\* C17 (amended): with the same input the span (10,10.5) is shorter than
\* the minimum silence duration and is no cut, so the segments are (0,2) and
\* (4,20), and with trim 0.5 they are (0.5,1.5) and (4.5,19.5); times
\* doubled as above.
C17_ExampleTwoSegments ==
    (/\ mode = "full" /\ pc = "done" /\ exit = Some(0) /\ a1 # None
     /\ Deref(a1).Silence = <<[Start |-> 4, End |-> 8], [Start |-> 20, End |-> 21]>>
     /\ Deref(a1).Probe.Duration = 40
     /\ splitSec = 2) =>
       /\ trimSec = 0 =>
             cuts = <<[part |-> 1, range |-> [start |-> 0, end |-> 4]],
                      [part |-> 2, range |-> [start |-> 8, end |-> 40]]>>
       /\ trimSec = 1 =>
             cuts = <<[part |-> 1, range |-> [start |-> 1, end |-> 3]],
                      [part |-> 2, range |-> [start |-> 9, end |-> 39]]>>

\* the example split with trim 0.5 (1 in doubled time), every cut succeeding
C17_Witness ==
    /\ mode = "full"
    /\ pc = "done"
    /\ exit = Some(0)
    /\ a1 # None
    /\ Deref(a1).Silence = <<[Start |-> 4, End |-> 8], [Start |-> 20, End |-> 21]>>
    /\ Deref(a1).Probe.Duration = 40
    /\ splitSec = 2
    /\ trimSec = 1
    /\ Len(cuts) = 2
    /\ outs = <<PartName(1), PartName(2)>>

\* C18: when the walk over the silence spans yields zero or one segment,
\* splitBySilence returns an empty result and no error and issues no cut
\* operation, whatever the trim value.
C18_NothingToSplit ==
    (mode = "full" /\ splitSec > 0 /\ pc = "done" /\ a1 # None /\ outFile # None) =>
       LET a      == Deref(a1)
           Q      == SelectSeq(a.Silence,
                               LAMBDA s : s.End - s.Start >= splitSec)
           cursor == IF Q = <<>> THEN 0 ELSE Q[Len(Q)].End
           n      == Len(Q) + (IF cursor < a.Probe.Duration THEN 1 ELSE 0)
       IN  n <= 1 => cuts = <<>> /\ outs = <<>> /\ exit = Some(0)

\* one silence shorter than the minimum, split asked for with a trim: the
\* single segment is not cut
C18_Witness ==
    /\ mode = "full"
    /\ pc = "done"
    /\ exit = Some(0)
    /\ splitSec = 4
    /\ trimSec = 3
    /\ a1 # None
    /\ Deref(a1).Probe.Duration = 40
    /\ Deref(a1).Silence = <<[Start |-> 20, End |-> 21]>>
    /\ outFile # None
    /\ cuts = <<>>
    /\ outs = <<>>

\* C19: for every segment (start <= end) and every trim > 0 the range
\* handed to the cut operation is new start = min(end, start + trim),
\* new end = max(new start, end - trim): start <= new start <= new end <=
\* end, and it is (start + trim, end - trim) whenever end - start >= 2*trim;
\* with trim <= 0 the segment is handed over unchanged.
C19_TrimIsClamped ==
    (mode = "full" /\ splitSec > 0 /\ pc = "done" /\ a1 # None /\ outFile # None) =>
       LET a      == Deref(a1)
           Q      == SelectSeq(a.Silence,
                               LAMBDA s : s.End - s.Start >= splitSec)
           seg(i) == IF i <= Len(Q)
                     THEN [start |-> IF i = 1 THEN 0 ELSE Q[i - 1].End,
                           end |-> Q[i].Start]
                     ELSE [start |-> IF Q = <<>> THEN 0 ELSE Q[Len(Q)].End,
                           end |-> a.Probe.Duration]
       IN  \A i \in 1..Len(cuts) :
              LET sg == seg(i)
                  r  == cuts[i].range
                  ns == IF sg.start + trimSec <= sg.end
                        THEN sg.start + trimSec ELSE sg.end
                  ne == IF sg.end - trimSec >= ns
                        THEN sg.end - trimSec ELSE ns
              IN  /\ sg.start <= sg.end
                  /\ trimSec > 0 =>
                        /\ r = [start |-> ns, end |-> ne]
                        /\ sg.start <= r.start
                        /\ r.start <= r.end
                        /\ r.end <= sg.end
                        /\ (sg.end - sg.start >= 2 * trimSec) =>
                              r = [start |-> sg.start + trimSec,
                                   end |-> sg.end - trimSec]
                  /\ trimSec <= 0 => r = sg

\* trim 3 on the segments (0,8) and (20,21): the first is shrunk at both
\* ends, the second collapses onto its end
C19_Witness ==
    /\ mode = "full"
    /\ pc = "done"
    /\ exit = Some(0)
    /\ trimSec = 3
    /\ a1 # None
    /\ Deref(a1).Silence = <<[Start |-> 8, End |-> 20], [Start |-> 21, End |-> 40]>>
    /\ cuts = <<[part |-> 1, range |-> [start |-> 3, end |-> 5]],
                [part |-> 2, range |-> [start |-> 21, end |-> 21]]>>

\* C20: the delta map of compare(A, B) has its keys in the catalogue
\* peak_db, rms_db, crest_db, lufs_integrated, lufs_range,
\* stereo_side_mid_db, bpm_median, duration_s, each value being B's metric
\* minus A's; the two lufs keys are present iff both sides have Loudness,
\* bpm_median iff both have a median BPM; a metric missing on either side
\* (its probe measured nothing) is omitted, never given 0 or the other
\* side's value.
C20_DeltaOnlyForMetricsOnBothSides ==
    (mode = "compare" /\ pc = "done" /\ outFile # None) =>
       LET d         == compare(Deref(a1), Deref(a2))
           Catalogue == {"peak_db", "rms_db", "crest_db", "lufs_integrated",
                         "lufs_range", "stereo_side_mid_db", "bpm_median",
                         "duration_s"}
           Has(a, f, k) ==
               CASE k \in {"peak_db", "rms_db", "crest_db"} ->
                        f.volumedetect.max # None /\ f.volumedetect.mean # None
                 [] k \in {"lufs_integrated", "lufs_range"} -> a.Loudness # None
                 [] k = "bpm_median" ->
                        a.Tempo # None /\ Deref(a.Tempo).BPMMedian # None
                 [] OTHER -> TRUE
           Val(a, k) ==
               CASE k = "peak_db" -> a.Level.PeakDB
                 [] k = "rms_db" -> a.Level.RMSDB
                 [] k = "crest_db" -> a.Level.CrestDB
                 [] k = "lufs_integrated" -> Deref(a.Loudness).Integrated
                 [] k = "lufs_range" -> Deref(a.Loudness).Range
                 [] k = "stereo_side_mid_db" -> a.Stereo.SideMidRatioDB
                 [] k = "bpm_median" -> Deref(Deref(a.Tempo).BPMMedian)
                 [] k = "duration_s" -> a.Probe.Duration
       IN  /\ d.A = Deref(a1)
           /\ d.B = Deref(a2)
           /\ DOMAIN d.Delta \subseteq Catalogue
           /\ \A k \in Catalogue :
                 /\ k \in DOMAIN d.Delta <=>
                       Has(d.A, files[1], k) /\ Has(d.B, files[2], k)
                 /\ k \in DOMAIN d.Delta =>
                       d.Delta[k] = Val(d.B, k) - Val(d.A, k)

\* C21: for every Diff produced by compare, the md table and the plain-text
\* diff hold exactly one row or line per key of the delta map, in the order
\* peak, RMS, crest, integrated LUFS, loudness range, side/mid, median BPM,
\* duration, and none for a metric absent from the map.
C21_DiffRowsAreDeltaKeys ==
    (mode = "compare" /\ pc = "done" /\ outFile # None
     /\ Deref(outFile).format \in {"md", "txt"}) =>
       LET D     == compare(Deref(a1), Deref(a2)).Delta
           body  == Deref(outFile).body
           order == <<"peak_db", "rms_db", "crest_db", "lufs_integrated",
                      "lufs_range", "stereo_side_mid_db", "bpm_median",
                      "duration_s">>
           KeyOf(name) ==
               CASE name = "Peak dBFS" -> "peak_db"
                 [] name = "RMS dBFS" -> "rms_db"
                 [] name = "Crest dB" -> "crest_db"
                 [] name = "LUFS (integr.)" -> "lufs_integrated"
                 [] name = "LUFS Range" -> "lufs_range"
                 [] name = "Side/Mid dB" -> "stereo_side_mid_db"
                 [] name = "BPM (median)" -> "bpm_median"
                 [] name = "Duration (s)" -> "duration_s"
                 [] OTHER -> name
           rows  == [i \in 1..Len(body) |-> KeyOf(body[i].name)]
       IN  /\ rows = SelectSeq(order, LAMBDA k : k \in DOMAIN D)
           /\ \A i \in 1..Len(body) : body[i].dv = D[rows[i]]

\* an md diff of a file with loudness and tempo against one without
\* loudness: six rows, the two LUFS rows left out
C21_Witness ==
    /\ mode = "compare"
    /\ pc = "done"
    /\ outFile # None
    /\ Deref(outFile).format = "md"
    /\ Deref(a1).Loudness # None
    /\ Deref(a2).Loudness = None
    /\ [i \in 1..Len(Deref(outFile).body) |-> Deref(outFile).body[i].name]
         = <<"Peak dBFS", "RMS dBFS", "Crest dB", "Side/Mid dB",
             "BPM (median)", "Duration (s)">>

\* C22: in the plain-text and markdown reports an absent optional field or
\* section (true peak, clip data, Loudness, correlation, each spectral
\* field, Tempo, Pitch, Key and their fields, silence total and ratio)
\* prints nothing, an empty band, silence-span or note list prints no
\* section header, and band and silence rows follow the order of the lists
\* of the Analysis.
C22_AbsentFieldsPrintNothing ==
    (mode = "full" /\ outFile # None /\ Deref(outFile).format \in {"txt", "md"}) =>
       LET a    == Deref(a1)
           body == Deref(outFile).body
           Has(sec, field) ==
               \E i \in 1..Len(body) : body[i].sec = sec /\ body[i].field = field
           HasSec(sec) == \E i \in 1..Len(body) : body[i].sec = sec
           Rows(sec) ==
               LET r == SelectSeq(body, LAMBDA it : it.sec = sec /\ it.field = "row")
               IN  [i \in 1..Len(r) |-> r[i].val]
           Silent(p, sec, fields) ==
               /\ p = None => ~HasSec(sec)
               /\ p # None =>
                     \A k \in fields : Deref(p)[k] = None => ~Has(sec, k)
       IN  /\ a.Level.TruePeakDBTP = None => ~Has("Levels", "TruePeakDBTP")
           /\ a.Level.ClipSamples = None => ~Has("Levels", "ClipSamples")
           /\ a.Level.ClipPercent = None => ~Has("Levels", "ClipPercent")
           /\ a.Loudness = None => ~HasSec("Loudness")
           /\ (a.Loudness # None /\ Deref(a.Loudness).TruePeak = None) =>
                 ~Has("Loudness", "TruePeak")
           /\ a.Stereo.Correlation = None => ~Has("Stereo", "Correlation")
           /\ \A k \in DOMAIN a.Spectral :
                 a.Spectral[k] = None => ~Has("Spectral", k)
           /\ Silent(a.Tempo, "Tempo",
                     {"BPMMedian", "BPMMean", "BPMStd", "OnsetPerMin"})
           /\ Silent(a.Pitch, "Pitch",
                     {"HzMedian", "HzMean", "HzMin", "HzMax", "MIDIMedian", "Note"})
           /\ Silent(a.Key, "Key", {"Key", "Scale", "Conf"})
           /\ a.SilenceTotal = None => ~Has("Silence", "SilenceTotal")
           /\ a.SilenceRatio = None => ~Has("Silence", "SilenceRatio")
           /\ a.Bands = <<>> => ~HasSec("Bands")
           /\ a.Silence = <<>> => ~HasSec("Silence")
           /\ a.Notes = <<>> => ~HasSec("Notes")
           /\ Rows("Bands") = a.Bands
           /\ Rows("Silence") = a.Silence

\* a markdown report of a file with no loudness, no correlation, no tempo,
\* no silence, one band measured out of two: the sections are missing and
\* the band table has its one row
C22_Witness ==
    /\ mode = "full"
    /\ outFile # None
    /\ Deref(outFile).format = "md"
    /\ Deref(a1).Loudness = None
    /\ Deref(a1).Stereo.Correlation = None
    /\ Deref(a1).Tempo = None
    /\ Deref(a1).Silence = <<>>
    /\ Len(Deref(a1).Bands) = 1
    /\ Len(SelectSeq(Deref(outFile).body, LAMBDA it : it.sec = "Bands")) = 2
    /\ ~\E i \in 1..Len(Deref(outFile).body) :
           Deref(outFile).body[i].sec \in {"Loudness", "Tempo", "Silence"}

\* C23: for fixed outcomes of all probes the Analysis does not depend on
\* the order in which the optional probes run: each optional probe writes
\* its own part of the Analysis, and whether another optional probe is
\* invoked, and what it contributes, does not depend on that probe's
\* outcome.  Checked probe by probe: replacing the output of one probe P by
\* a failure leaves the invocation and the part of every other probe Q as
\* they were.
C23_ProbesDoNotInteract ==
    LET Probes == {"volumedetect", "astats", "ebur128", "spectral", "stereo",
                   "band", "silence", "tempo", "onset", "pitch", "key"}
        Failed(f, P) ==
            CASE P = "volumedetect" -> [f EXCEPT !.volumedetect = VdFail]
              [] P = "astats" -> [f EXCEPT !.astats = AstFail]
              [] P = "ebur128" -> [f EXCEPT !.ebur128 = EburFail]
              [] P = "spectral" ->
                    [f EXCEPT !.spectral = [k \in DOMAIN f.spectral |-> None]]
              [] P = "stereo" -> [f EXCEPT !.stereo = [vals |-> <<>>, corr |-> None]]
              [] P = "band" -> [f EXCEPT !.band = [i \in DOMAIN f.band |-> BandFail]]
              [] P = "silence" -> [f EXCEPT !.silence = <<>>]
              [] P = "tempo" -> [f EXCEPT !.tempo = [failed |-> TRUE, vals |-> <<>>]]
              [] P = "onset" -> [f EXCEPT !.onset = 0]
              [] P = "pitch" -> [f EXCEPT !.pitch = <<>>]
              [] P = "key" -> [f EXCEPT !.key = KeyNothing]
        NotesOfRule(a, r) == SelectSeq(a.Notes, LAMBDA n : n.rule = r)
        Part(a, Q) ==
            CASE Q = "volumedetect" ->
                    <<a.Level.PeakDB, a.Level.RMSDB, a.Level.CrestDB,
                      a.Level.HeadroomDB>>
              [] Q = "astats" ->
                    <<a.Level.DCOffset, a.Level.ZeroXRate, a.Level.NoiseFloor,
                      a.Level.ClipSamples, a.Level.ClipPercent,
                      NotesOfRule(a, "clipping")>>
              [] Q = "ebur128" ->
                    <<a.Loudness, a.Level.TruePeakDBTP, NotesOfRule(a, "truepeak")>>
              [] Q = "spectral" -> <<a.Spectral, NotesOfRule(a, "flatness")>>
              [] Q = "stereo" -> <<a.Stereo, NotesOfRule(a, "correlation")>>
              [] Q = "band" -> a.Bands
              [] Q = "silence" -> <<a.Silence, a.SilenceTotal, a.SilenceRatio>>
              [] Q = "tempo" ->
                    IF a.Tempo = None THEN <<>>
                    ELSE <<Deref(a.Tempo).BPMMedian, Deref(a.Tempo).BPMMean,
                           Deref(a.Tempo).BPMStd>>
              [] Q = "onset" ->
                    IF a.Tempo = None THEN <<>>
                    ELSE <<Deref(a.Tempo).Events, Deref(a.Tempo).OnsetPerMin>>
              [] Q = "pitch" -> a.Pitch
              [] Q = "key" -> a.Key
        Count(cs, Q) == Cardinality({j \in 1..Len(cs) : cs[j] = Q})
        Good(a, f) ==
            LET r0 == analyzeFile(cfg, sys, f)
            IN  /\ r0.a = Some(a)
                /\ \A P \in Probes : \A Q \in Probes \ {P} :
                      LET r1 == analyzeFile(cfg, sys, Failed(f, P))
                      IN  /\ Count(r1.calls, Q) = Count(r0.calls, Q)
                          /\ Part(Deref(r1.a), Q) = Part(a, Q)
    IN  /\ a1 # None => Good(Deref(a1), files[1])
        /\ a2 # None => Good(Deref(a2), files[2])

\* C24: in full mode the steps come in the order analyze, write report,
\* split: the report is written after the analysis and before any cut, a
\* cut is issued only with the report on disk and -split-on-silence > 0
\* (none after a failed write), and a cut that fails ends the run with
\* status 1 and leaves the report as written.
C24_FullModeOrder ==
    [][mode = "full" =>
          /\ outFile' # outFile =>
                /\ pc = "full_analyzed"
                /\ a1 # None
                /\ a1' = a1
                /\ cuts = <<>>
                /\ cuts' = <<>>
          /\ cuts' # cuts =>
                /\ pc = "full_reported"
                /\ outFile # None
                /\ outFile' = outFile
                /\ splitSec > 0
          /\ (pc = "full_analyzed" /\ outFile' = None) =>
                pc' = "done" /\ exit' = Some(1)
          /\ (pc = "full_reported" /\ Len(outs') < Len(cuts')) =>
                exit' = Some(1) /\ outFile' = outFile
          /\ (pc = "full_reported" /\ Len(outs') = Len(cuts')) =>
                exit' = Some(0)]_vars

\* the second cut of a split failed: status 1, one part returned, and the
\* report still there
C24_Witness ==
    /\ mode = "full"
    /\ pc = "done"
    /\ exit = Some(1)
    /\ outFile # None
    /\ Len(cuts) = 2
    /\ outs = <<PartName(1)>>

\* C25: with at least two segments splitBySilence cuts them in segment
\* order, the i-th (from 1) into <base>-part<i on two digits><ext>; when the
\* cut of segment i fails it stops there, attempts no later segment and
\* returns an error with exactly the paths of segments 1..i-1; when no cut
\* fails it returns one path per segment and no error.
C25_CutsInOrderStopAtFailure ==
    (mode = "full" /\ splitSec > 0 /\ pc = "done" /\ a1 # None /\ outFile # None) =>
       LET a      == Deref(a1)
           Q      == SelectSeq(a.Silence,
                               LAMBDA s : s.End - s.Start >= splitSec)
           cursor == IF Q = <<>> THEN 0 ELSE Q[Len(Q)].End
           n      == Len(Q) + (IF cursor < a.Probe.Duration THEN 1 ELSE 0)
       IN  n >= 2 =>
              /\ Len(cuts) \in 1..n
              /\ \A i \in 1..Len(cuts) : cuts[i].part = i
              /\ exit = Some(0) => Len(cuts) = n /\ Len(outs) = n
              /\ exit = Some(1) => Len(outs) = Len(cuts) - 1
              /\ exit \in {Some(0), Some(1)}
              /\ \A i \in 1..Len(outs) :
                    outs[i] = [base |-> "base",
                               part |-> <<i \div 10, i % 10>>,
                               ext |-> "ext"]

\* three segments, the cut of the second fails: two cuts attempted, the
\* first path returned, status 1
C25_Witness ==
    /\ mode = "full"
    /\ pc = "done"
    /\ exit = Some(1)
    /\ splitSec = 1
    /\ a1 # None
    /\ Deref(a1).Probe.Duration = 40
    /\ Len(Deref(a1).Silence) = 2
    /\ Len(cuts) = 2
    /\ cuts[2].part = 2
    /\ outs = <<[base |-> "base", part |-> <<0, 1>>, ext |-> "ext"]>>

\* C26: when the key tool's output names a key (an uppercase letter A-G
\* followed by whitespace and optionally a scale name), aubioKey returns a
\* KeyInfo whose Key is that letter and whose Scale is that scale name.
C26_KeyAndScaleReturned ==
    LET Good(a, f) ==
            (sys.aubio /\ f.key.letter # None) =>
               /\ a.Key # None
               /\ Deref(a.Key).Key = f.key.letter
               /\ Deref(a.Key).Scale = f.key.scale
    IN  /\ a1 # None => Good(Deref(a1), files[1])
        /\ a2 # None => Good(Deref(a2), files[2])

----------------------------------------------------------------------------
(* The split tool: command lines *)

\* a cutoff no preset and no default uses (Hz)
UserHz == 50

\* the cutoffs set on the command line: each of the five the presets shape,
\* and the other three together
ArgvCuts ==
    {[n \in CutoffFlags |->
        IF n \in {"music-lp", "vocal-hp", "vocal-lp"}
        THEN (IF rest THEN Some(UserHz) ELSE None)
        ELSE (IF n \in on THEN Some(UserHz) ELSE None)] :
        on \in SUBSET {"bass-hp", "bass-lp", "drums-hp", "drums-lp", "music-hp"},
        rest \in BOOLEAN}

\* engine, input path and binaries: the branches of main
ArgvEnvs ==
    {[engine |-> "ffmpeg", input |-> TRUE, stat |-> TRUE, ffmpegFound |-> TRUE,
      demucsFound |-> FALSE],
     [engine |-> "other", input |-> TRUE, stat |-> TRUE, ffmpegFound |-> TRUE,
      demucsFound |-> TRUE],
     [engine |-> "ffmpeg", input |-> FALSE, stat |-> FALSE, ffmpegFound |-> TRUE,
      demucsFound |-> TRUE],
     [engine |-> "ffmpeg", input |-> TRUE, stat |-> FALSE, ffmpegFound |-> TRUE,
      demucsFound |-> TRUE],
     [engine |-> "ffmpeg", input |-> TRUE, stat |-> TRUE, ffmpegFound |-> FALSE,
      demucsFound |-> TRUE],
     [engine |-> "demucs", input |-> TRUE, stat |-> TRUE, ffmpegFound |-> FALSE,
      demucsFound |-> TRUE],
     [engine |-> "demucs", input |-> TRUE, stat |-> TRUE, ffmpegFound |-> TRUE,
      demucsFound |-> FALSE]}

\* the remaining flags: format, gains, vocal mid level (hundredths)
ArgvGains ==
    {[outFormat |-> "wav", autoGain |-> TRUE, preGainDB |-> -4,
      gainBassDB |-> 5, vocalMid |-> 95],
     [outFormat |-> "mp3", autoGain |-> FALSE, preGainDB |-> 0,
      gainBassDB |-> 0, vocalMid |-> 150],
     [outFormat |-> "flac", autoGain |-> TRUE, preGainDB |-> 0,
      gainBassDB |-> 5, vocalMid |-> -5]}

Argvs ==
    {[engine |-> e.engine, outFormat |-> g.outFormat, preset |-> p,
      stems |-> st, cut |-> ct, autoGain |-> g.autoGain,
      preGainDB |-> g.preGainDB, gainBassDB |-> g.gainBassDB,
      vocalMid |-> g.vocalMid, input |-> e.input, stat |-> e.stat,
      ffmpegFound |-> e.ffmpegFound, demucsFound |-> e.demucsFound] :
        e \in ArgvEnvs, g \in ArgvGains,
        p \in {"soft", "Soft", "medium", "hard", "HARD", "loud"},
        st \in {<<"bass", "drums", "music", "vocal">>, <<" Bass", "music">>,
                <<"stem">>},
        ct \in ArgvCuts}

\* split started on one of the command lines of Argvs; analize not started
InitStems ==
    /\ AnalizeFrom({Scenario(AllTools, "", BaseCfg, 0, 0, <<>>)})
    /\ StemsFrom(Argvs)

SpecStems == InitStems /\ [][NextStems]_vars

\* C27: in the split tool a cutoff set explicitly on the command line
\* (-bass-hp, -bass-lp, -drums-hp, -drums-lp, -music-hp) is the value used
\* in the generated filter chain; the preset only supplies the cutoffs the
\* user did not set.
C27_UserCutoffsReachTheChain ==
    (stemPc = "done" /\ stemExit = Some(0) /\ Deref(stemCfg).engine # "demucs") =>
       LET Uses(stem, flag, f) ==
               \A i \in 1..Len(jobs) :
                  (jobs[i].name = stem /\ argv.cut[flag] # None) =>
                     \E k \in 1..Len(jobs[i].filter) :
                        /\ jobs[i].filter[k].f = f
                        /\ jobs[i].filter[k].v = <<Deref(argv.cut[flag])>>
       IN  /\ Uses("bass", "bass-hp", "highpass")
           /\ Uses("bass", "bass-lp", "lowpass")
           /\ Uses("drums", "drums-hp", "highpass")
           /\ Uses("drums", "drums-lp", "lowpass")
           /\ Uses("music", "music-hp", "highpass")

\* C28: if the silence spans are ordered by start, pairwise non-overlapping
\* and within [0, duration], the segments built by splitBySilence are in
\* increasing time order, pairwise non-overlapping, each within
\* [0, duration] with start <= end; none overlaps the interior of a
\* qualifying span; every instant of [0, duration] outside the qualifying
\* spans is in some segment. Instants are taken every half tick; with no
\* trim and no failed cut the ranges cut are these segments.
C28_SegmentsPartitionTheSound ==
    (mode = "full" /\ splitSec > 0 /\ a1 # None) =>
       LET a    == Deref(a1)
           dur  == a.Probe.Duration
           sil  == a.Silence
           Pre  == /\ \A i \in 1..Len(sil) :
                        0 <= sil[i].Start /\ sil[i].Start <= sil[i].End
                        /\ sil[i].End <= dur
                   /\ \A i \in 1..(Len(sil) - 1) : sil[i].End <= sil[i + 1].Start
           segs == Segments(sil, dur, splitSec)
           Q    == {i \in 1..Len(sil) : sil[i].End - sil[i].Start >= splitSec}
       IN  Pre =>
              /\ \A i \in 1..Len(segs) :
                    0 <= segs[i].start /\ segs[i].start <= segs[i].end
                    /\ segs[i].end <= dur
              /\ \A i \in 1..(Len(segs) - 1) :
                    /\ segs[i].start < segs[i + 1].start
                    /\ segs[i].end <= segs[i + 1].start
              /\ \A i \in 1..Len(segs) : \A q \in Q :
                    ~(segs[i].start < sil[q].End /\ sil[q].Start < segs[i].end)
              /\ \A t \in 0..(2 * dur) :
                    (\A q \in Q : t < 2 * sil[q].Start \/ 2 * sil[q].End < t) =>
                       \E i \in 1..Len(segs) :
                          2 * segs[i].start <= t /\ t <= 2 * segs[i].end
              /\ (pc = "done" /\ exit = Some(0) /\ trimSec <= 0
                  /\ Len(segs) >= 2) =>
                    /\ Len(cuts) = Len(segs)
                    /\ \A i \in 1..Len(segs) : cuts[i].range = segs[i]

\* C28, amended: for a file of positive duration whose silence spans are
\* ordered by start, pairwise non-overlapping and within [0, duration], the
\* segments built by splitBySilence are in increasing time order, pairwise
\* non-overlapping, each within [0, duration] with start <= end; none
\* overlaps the interior of a qualifying span; every instant of
\* [0, duration] outside the qualifying spans is in some segment.
C28_SegmentsPartitionPositiveSound ==
    (mode = "full" /\ splitSec > 0 /\ a1 # None) =>
       LET a    == Deref(a1)
           dur  == a.Probe.Duration
           sil  == a.Silence
           Pre  == /\ dur > 0
                   /\ \A i \in 1..Len(sil) :
                        0 <= sil[i].Start /\ sil[i].Start <= sil[i].End
                        /\ sil[i].End <= dur
                   /\ \A i \in 1..(Len(sil) - 1) : sil[i].End <= sil[i + 1].Start
           segs == Segments(sil, dur, splitSec)
           Q    == {i \in 1..Len(sil) : sil[i].End - sil[i].Start >= splitSec}
       IN  Pre =>
              /\ \A i \in 1..Len(segs) :
                    0 <= segs[i].start /\ segs[i].start <= segs[i].end
                    /\ segs[i].end <= dur
              /\ \A i \in 1..(Len(segs) - 1) :
                    /\ segs[i].start < segs[i + 1].start
                    /\ segs[i].end <= segs[i + 1].start
              /\ \A i \in 1..Len(segs) : \A q \in Q :
                    ~(segs[i].start < sil[q].End /\ sil[q].Start < segs[i].end)
              /\ \A t \in 0..(2 * dur) :
                    (\A q \in Q : t < 2 * sil[q].Start \/ 2 * sil[q].End < t) =>
                       \E i \in 1..Len(segs) :
                          2 * segs[i].start <= t /\ t <= 2 * segs[i].end
              /\ (pc = "done" /\ exit = Some(0) /\ trimSec <= 0
                  /\ Len(segs) >= 2) =>
                    /\ Len(cuts) = Len(segs)
                    /\ \A i \in 1..Len(segs) : cuts[i].range = segs[i]

\* a 40-tick file with a long silence [4, 8] and a short one [20, 21],
\* split at 2 ticks: the two segments [0, 4] and [8, 40] were cut, the
\* short silence inside the second
C28_Witness ==
    /\ mode = "full"
    /\ pc = "done"
    /\ exit = Some(0)
    /\ splitSec = 2
    /\ trimSec = 0
    /\ a1 # None
    /\ Deref(a1).Probe.Duration = 40
    /\ Deref(a1).Silence = <<[Start |-> 4, End |-> 8], [Start |-> 20, End |-> 21]>>
    /\ Len(cuts) = 2
    /\ cuts[1].range = [start |-> 0, end |-> 4]
    /\ cuts[2].range = [start |-> 8, end |-> 40]

\* C29: with ordered, non-overlapping silence spans within [0, duration] and
\* trim = 0, every segment handed to the cut operation has positive length
\* (start < end), and empty segments do not count towards the "more than
\* one segment" test: with at most one segment of positive length nothing
\* is cut.
C29_NoEmptySegmentIsCut ==
    (mode = "full" /\ splitSec > 0 /\ trimSec = 0 /\ pc = "done" /\ a1 # None) =>
       LET a    == Deref(a1)
           dur  == a.Probe.Duration
           sil  == a.Silence
           Pre  == /\ \A i \in 1..Len(sil) :
                        0 <= sil[i].Start /\ sil[i].Start <= sil[i].End
                        /\ sil[i].End <= dur
                   /\ \A i \in 1..(Len(sil) - 1) : sil[i].End <= sil[i + 1].Start
           Q    == SelectSeq(sil, LAMBDA s : s.End - s.Start >= splitSec)
           \* the stretches of sound between the qualifying spans
           gap(i) == [start |-> IF i = 1 THEN 0 ELSE Q[i - 1].End,
                      end   |-> IF i = Len(Q) + 1 THEN dur ELSE Q[i].Start]
           sound == {i \in 1..(Len(Q) + 1) : gap(i).start < gap(i).end}
       IN  Pre =>
              /\ \A i \in 1..Len(cuts) : cuts[i].range.start < cuts[i].range.end
              /\ Cardinality(sound) <= 1 => cuts = <<>>

\* C30: every optional value present in an Analysis appears in the
\* plain-text and in the markdown report: each present spectral field (also
\* spread, skewness or kurtosis when centroid, rolloff and flatness are all
\* absent), a present key confidence (also without key and scale), a
\* present clipped-sample count (also without the clip percentage).
C30_PresentValuesAreRendered ==
    (mode = "full" /\ outFile # None /\ Deref(outFile).format \in {"txt", "md"}) =>
       LET a    == Deref(a1)
           body == Deref(outFile).body
           Shows(sec, field, v) ==
               \E i \in 1..Len(body) :
                  body[i].sec = sec /\ body[i].field = field /\ body[i].val = v
           Shown(p, sec, fields) ==
               p # None =>
                  \A k \in fields :
                     Deref(p)[k] # None => Shows(sec, k, Deref(Deref(p)[k]))
       IN  /\ \A k \in DOMAIN a.Spectral :
                 a.Spectral[k] # None => Shows("Spectral", k, Deref(a.Spectral[k]))
           /\ Shown(a.Key, "Key", {"Key", "Scale", "Conf"})
           /\ a.Level.ClipSamples # None =>
                 Shows("Levels", "ClipSamples", Deref(a.Level.ClipSamples))
           /\ a.Level.ClipPercent # None =>
                 Shows("Levels", "ClipPercent", Deref(a.Level.ClipPercent))
           /\ a.Level.TruePeakDBTP # None =>
                 Shows("Levels", "TruePeakDBTP", Deref(a.Level.TruePeakDBTP))
           /\ a.Stereo.Correlation # None =>
                 Shows("Stereo", "Correlation", Deref(a.Stereo.Correlation))
           /\ Shown(a.Loudness, "Loudness", {"TruePeak"})
           /\ Shown(a.Tempo, "Tempo",
                    {"BPMMedian", "BPMMean", "BPMStd", "OnsetPerMin"})
           /\ Shown(a.Pitch, "Pitch",
                    {"HzMedian", "HzMean", "HzMin", "HzMax", "MIDIMedian", "Note"})
           /\ a.SilenceTotal # None =>
                 Shows("Silence", "SilenceTotal", Deref(a.SilenceTotal))
           /\ a.SilenceRatio # None =>
                 Shows("Silence", "SilenceRatio", Deref(a.SilenceRatio))
====
